---------------------------- MODULE Spec2Model ----------------------------
(***************************************************************************)
(* Model of the mattoni budget tracker: the expression evaluator, the      *)
(* clipboard parser, the rollup / cashflow / variance calculations of the  *)
(* tables, and the edit session of the EditDrawer.                         *)
(*                                                                         *)
(* Text is a sequence of one-character strings.  A JavaScript number is an *)
(* exact rational <<n, d>> with d > 0 in lowest terms (floating-point      *)
(* rounding is not modelled); NaN and null are pairs with d = 0.           *)
(***************************************************************************)
EXTENDS Integers, Sequences, FiniteSets, TLC

VARIABLES
    exprParts,     \* how the typed text was put together (for the properties)
    exprText,      \* the text handed to commitValue (editingValue / editValue)
    exprOut,       \* what commitValue computed from it
    clipText,      \* the text read from the clipboard
    clipOut,       \* what parseClipboardTSV returned for it
    sections,          \* the hierarchy snapshot handed to the tables
    budgetValues,      \* <<componentId, month>> -> budget amount of the year
    actualValues,      \* <<componentId, month>> -> actual amount of the year
    selectedYear,      \* App's selectedYear: the year prop of the tables and
                       \* of EditDrawer
    cashflowSettings,  \* the cashflow anchor
    tableOut,          \* what BudgetTable computed (calculations)
    compareOut,        \* what ComparisonTable computed and rendered
    mounted,           \* App renders the budget view, so EditDrawer exists
    editingComponent,  \* App's editingComponent (EditDrawer's component
                       \* prop): its id, or None
    drawer,            \* the state and the refs of the EditDrawer instance
    loads,             \* the GETs of component values not yet answered, each
                       \* with the number of PUTs dispatched before it
    timers,            \* the pending auto-focus timers, by their firstValue
    flushes,           \* every PUT of component values dispatched so far
    served,            \* the PUTs that have settled, in the order they did:
                       \* the index in flushes and whether the PUT succeeded
    serverValues,      \* budget_values: <<componentId, year>> -> month -> amount
    editsLeft,         \* how many more times the session changes the buffer
    switchesLeft,      \* how many more times App changes what EditDrawer is
                       \* given
    budget_values,     \* the rows of table budget_values
    actual_values,     \* the rows of table actual_values
    budget_notes,      \* the rows of table budget_notes
    lastNotes,         \* per key of budget_notes, the text last written to it
    cashflow_settings, \* the rows of table cashflow_settings, oldest first
    actuals_cutoff_settings, \* the rows of table actuals_cutoff_settings
    response,          \* the request the server handled last, and its status
    pendingActualChanges, \* BudgetVsActualView's state of that name:
                          \* <<componentId, month>> -> the actual entered
    actualPuts,        \* the PUTs of actuals the view has dispatched that
                       \* have not been answered yet
    actualEditsLeft,   \* how many more actuals the user enters
    yearChangesLeft    \* how many more times the year of the view changes

exprVars == <<exprParts, exprText, exprOut>>
clipVars == <<clipText, clipOut>>
tableIn == <<sections, budgetValues, actualValues, cashflowSettings>>
tableState == <<tableIn, tableOut, compareOut>>
tableVars == <<tableState, selectedYear>>
drawerVars == <<mounted, editingComponent, drawer, loads, timers, flushes,
                served, serverValues, editsLeft, switchesLeft>>
storeVars == <<budget_values, actual_values, budget_notes, lastNotes,
               cashflow_settings, actuals_cutoff_settings, response>>
viewVars == <<pendingActualChanges, actualPuts, actualEditsLeft, yearChangesLeft>>
vars == <<exprVars, clipVars, tableVars, drawerVars, storeVars, viewVars>>

---------------------------------------------------------------------------
(* Numbers *)

NaN == <<0, 0>>
Null == <<1, 0>>

Abs(n) == IF n < 0 THEN -n ELSE n

RECURSIVE Gcd(_, _)
Gcd(a, b) == IF b = 0 THEN a ELSE Gcd(b, a % b)

\* The rational n/d (d # 0) in lowest terms with a positive denominator.
Rat(n, d) ==
    LET g == Gcd(Abs(n), Abs(d))
        s == IF d < 0 THEN -1 ELSE 1
    IN  <<(s * n) \div g, (s * d) \div g>>

Num(n) == <<n, 1>>
Zero == Num(0)

IsNum(x) == x # NaN /\ x # Null

Plus(a, b) == Rat(a[1] * b[2] + b[1] * a[2], a[2] * b[2])
Minus(a, b) == Rat(a[1] * b[2] - b[1] * a[2], a[2] * b[2])
Times(a, b) == Rat(a[1] * b[1], a[2] * b[2])
\* a / b for b # 0
Over(a, b) == Rat(a[1] * b[2], a[2] * b[1])
Neg(a) == <<-a[1], a[2]>>

---------------------------------------------------------------------------
(* Text *)

Digits == {"0", "1", "2", "3", "4", "5", "6", "7", "8", "9"}
\* the characters of \s that the inputs use
WhiteSpace == {" ", "\t"}
Operators == {"+", "-", "*", "/"}

DigitValue(c) ==
    CASE c = "0" -> 0 [] c = "1" -> 1 [] c = "2" -> 2 [] c = "3" -> 3
      [] c = "4" -> 4 [] c = "5" -> 5 [] c = "6" -> 6 [] c = "7" -> 7
      [] c = "8" -> 8 [] c = "9" -> 9

AllIn(s, from, to, S) == \A i \in from..to : s[i] \in S

RECURSIVE Pow10(_)
Pow10(k) == IF k = 0 THEN 1 ELSE 10 * Pow10(k - 1)

RECURSIVE DigitsValue(_)
DigitsValue(s) ==
    IF s = <<>> THEN 0
    ELSE 10 * DigitsValue(SubSeq(s, 1, Len(s) - 1)) + DigitValue(s[Len(s)])

\* String.prototype.trim
RECURSIVE TrimLeft(_)
TrimLeft(s) ==
    IF s # <<>> /\ s[1] \in WhiteSpace THEN TrimLeft(Tail(s)) ELSE s

RECURSIVE TrimRight(_)
TrimRight(s) ==
    IF s # <<>> /\ s[Len(s)] \in WhiteSpace
    THEN TrimRight(SubSeq(s, 1, Len(s) - 1)) ELSE s

Trim(s) == TrimRight(TrimLeft(s))

\* The length of the longest run of digits of s that starts at position i.
RECURSIVE DigitRun(_, _)
DigitRun(s, i) ==
    IF i <= Len(s) /\ s[i] \in Digits THEN 1 + DigitRun(s, i + 1) ELSE 0

\* parseFloat: leading white space is skipped, then the longest prefix that
\* is a decimal literal ([+-] digits [. digits] or [+-] . digits) is read;
\* NaN when there is none.  (No input of the model holds an exponent or
\* "Infinity".)
ParseFloat(str) ==
    LET s == TrimLeft(str)
        signed == s # <<>> /\ s[1] \in {"+", "-"}
        b == IF signed THEN 2 ELSE 1
        ni == DigitRun(s, b)
        dot == b + ni <= Len(s) /\ s[b + ni] = "."
        nf == IF dot THEN DigitRun(s, b + ni + 1) ELSE 0
        ip == DigitsValue(SubSeq(s, b, b + ni - 1))
        fp == DigitsValue(SubSeq(s, b + ni + 1, b + ni + nf))
        mag == Rat(ip * Pow10(nf) + fp, Pow10(nf))
    IN  IF ni = 0 /\ nf = 0 THEN NaN
        ELSE IF signed /\ s[1] = "-" THEN Neg(mag) ELSE mag

---------------------------------------------------------------------------
(* ExpressionEvaluator *)

\* ^\d+\.?\d*$
DecimalLiteral(s) ==
    \E k \in 1..Len(s) :
        /\ AllIn(s, 1, k, Digits)
        /\ \/ k = Len(s)
           \/ s[k + 1] = "." /\ AllIn(s, k + 2, Len(s), Digits)

\* The captures <<left, op, right>> of
\*   ^(\d+\.?\d*)\s*([+\-*/])\s*(\d+\.?\d*)$      on s[1..e]
BinaryMatch(s, e) ==
    { <<SubSeq(s, 1, a), s[p], SubSeq(s, b, e)>> :
        <<a, p, b>> \in { t \in (1..e) \X (1..e) \X (1..e) :
            /\ t[1] < t[2] /\ t[2] < t[3]
            /\ s[t[2]] \in Operators
            /\ AllIn(s, t[1] + 1, t[2] - 1, WhiteSpace)
            /\ AllIn(s, t[2] + 1, t[3] - 1, WhiteSpace)
            /\ DecimalLiteral(SubSeq(s, 1, t[1]))
            /\ DecimalLiteral(SubSeq(s, t[3], e)) } }

\* trimmed.match(/^(\d+\.?\d*)\s*([+\-*/])\s*(\d+\.?\d*)%$/)
percentMatch(trimmed) ==
    IF trimmed # <<>> /\ trimmed[Len(trimmed)] = "%"
    THEN BinaryMatch(trimmed, Len(trimmed) - 1) ELSE {}

\* trimmed.match(/^(\d+\.?\d*)\s*([+\-*/])\s*(\d+\.?\d*)$/)
basicMatch(trimmed) == BinaryMatch(trimmed, Len(trimmed))

\* PercentCase with '*' taking the percentage as a plain factor
PercentCaseUnscaled(m) ==
    LET baseNum == ParseFloat(m[1])
        percentNum == Over(ParseFloat(m[3]), Num(100))
    IN  CASE m[2] = "+" -> Plus(baseNum, Times(baseNum, percentNum))
          [] m[2] = "-" -> Minus(baseNum, Times(baseNum, percentNum))
          [] m[2] = "*" -> Times(baseNum, ParseFloat(m[3]))
          [] m[2] = "/" -> IF percentNum # Zero
                           THEN Over(baseNum, percentNum) ELSE Null

PercentCase(m) ==
    LET baseNum == ParseFloat(m[1])
        percentNum == Over(ParseFloat(m[3]), Num(100))
    IN  CASE m[2] = "+" -> Plus(baseNum, Times(baseNum, percentNum))
          [] m[2] = "-" -> Minus(baseNum, Times(baseNum, percentNum))
          [] m[2] = "*" -> Times(baseNum, percentNum)
          [] m[2] = "/" -> IF percentNum # Zero
                           THEN Over(baseNum, percentNum) ELSE Null

BasicCase(m) ==
    LET a == ParseFloat(m[1])
        b == ParseFloat(m[3])
    IN  CASE m[2] = "+" -> Plus(a, b)
          [] m[2] = "-" -> Minus(a, b)
          [] m[2] = "*" -> Times(a, b)
          [] m[2] = "/" -> IF b # Zero THEN Over(a, b) ELSE Null

\* the branch taken once both regular expressions have been tried
matchedCase(percent, basic) ==
    IF percent # {} THEN PercentCase(CHOOSE m \in percent : TRUE)
    ELSE IF basic # {} THEN BasicCase(CHOOSE m \in basic : TRUE)
    ELSE Null

\* evaluateExpression after const trimmed = input.trim()
evaluateTrimmed(trimmed) ==
    IF ~ \E i \in 1..Len(trimmed) : trimmed[i] \in Operators THEN Null
    ELSE matchedCase(percentMatch(trimmed), basicMatch(trimmed))

evaluateExpression(input) == evaluateTrimmed(Trim(input))

\* x || 0 for a number x
OrZero(x) == IF x = NaN THEN Zero ELSE x

\* evaluated !== null ? evaluated : (text === '' ? 0 : parseFloat(text) || 0)
evaluatedOrParsed(evaluated, text) ==
    IF evaluated # Null THEN evaluated
    ELSE IF text = <<>> THEN Zero ELSE OrZero(ParseFloat(text))

\* commitValue's numValue
numValue(text) == evaluatedOrParsed(evaluateExpression(text), text)

---------------------------------------------------------------------------
(* ClipboardTableParser *)

MONTHS == 12

Tab == "\t"
CurrencySymbols == {"€", "$", "£", "¥"}

RemoveAll(s, S) == SelectSeq(s, LAMBDA c : c \notin S)

\* s.replace(a, b) with a string pattern: the first occurrence only
ReplaceFirst(s, a, b) ==
    IF \E i \in 1..Len(s) : s[i] = a
    THEN LET i == CHOOSE j \in 1..Len(s) :
                    s[j] = a /\ \A k \in 1..(j - 1) : s[k] # a
         IN  [s EXCEPT ![i] = b]
    ELSE s

\* s.split(sep): the fields between the separators, empty ones included
RECURSIVE Split(_, _)
Split(s, sep) ==
    IF \E i \in 1..Len(s) : s[i] = sep
    THEN LET i == CHOOSE j \in 1..Len(s) :
                    s[j] = sep /\ \A k \in 1..(j - 1) : s[k] # sep
         IN  <<SubSeq(s, 1, i - 1)>> \o Split(SubSeq(s, i + 1, Len(s)), sep)
    ELSE <<s>>

\* hasCommaDecimal taking two digits only: /,\d{2}$/
hasCommaDecimalTwoDigits(cleaned) ==
    /\ Len(cleaned) > 2
    /\ cleaned[Len(cleaned) - 2] = ","
    /\ AllIn(cleaned, Len(cleaned) - 1, Len(cleaned), Digits)

\* /,\d{1,2}$/.test(cleaned)
hasCommaDecimal(cleaned) ==
    \E k \in 1..2 :
        /\ Len(cleaned) > k
        /\ cleaned[Len(cleaned) - k] = ","
        /\ AllIn(cleaned, Len(cleaned) - k + 1, Len(cleaned), Digits)

\* /\.\d{3}/.test(cleaned)
hasDotThousands(cleaned) ==
    \E i \in 1..(Len(cleaned) - 3) :
        cleaned[i] = "." /\ AllIn(cleaned, i + 1, i + 3, Digits)

\* cleaned.match(/^\((\d+\.?\d*)\)$/)
parenMatch(cleaned) ==
    /\ Len(cleaned) >= 3
    /\ cleaned[1] = "(" /\ cleaned[Len(cleaned)] = ")"
    /\ DecimalLiteral(SubSeq(cleaned, 2, Len(cleaned) - 1))

\* the European / US rewriting of a cell
Normalized(cleaned) ==
    IF hasCommaDecimal(cleaned) \/ hasDotThousands(cleaned)
    THEN ReplaceFirst(RemoveAll(cleaned, {"."}), ",", ".")
    ELSE RemoveAll(cleaned, {","})

\* the text handed to parseFloat for a cell that is neither empty nor "-"
Cleaned(raw) ==
    LET stripped == RemoveAll(RemoveAll(raw, CurrencySymbols), WhiteSpace)
        normal == Normalized(stripped)
    IN  IF parenMatch(normal)
        THEN <<"-">> \o SubSeq(normal, 2, Len(normal) - 1)
        ELSE normal

InvalidValue(i, raw) == [kind |-> "invalid", position |-> i, raw |-> raw]
NoData == [kind |-> "nodata", position |-> 0, raw |-> <<>>]

\* ParseParts without the 0 that stands in for an invalid cell
RECURSIVE ParsePartsNoSubstitute(_, _, _)
ParsePartsNoSubstitute(parts, i, acc) ==
    IF ~ (i <= Len(parts) /\ i <= MONTHS) THEN acc
    ELSE LET raw == Trim(parts[i])
             num == ParseFloat(Cleaned(raw))
             withRaw == [acc EXCEPT !.rawValues = Append(@, raw)]
         IN  IF raw = <<>> \/ raw = <<"-">>
             THEN ParsePartsNoSubstitute(parts, i + 1,
                      [withRaw EXCEPT !.values = Append(@, Zero)])
             ELSE IF num = NaN
             THEN ParsePartsNoSubstitute(parts, i + 1,
                      [withRaw EXCEPT !.errors = Append(@, InvalidValue(i, raw))])
             ELSE ParsePartsNoSubstitute(parts, i + 1,
                      [withRaw EXCEPT !.values = Append(@, num)])

\* One turn of the loop of parseClipboardTSV, for parts[i]
RECURSIVE ParseParts(_, _, _)
ParseParts(parts, i, acc) ==
    IF ~ (i <= Len(parts) /\ i <= MONTHS) THEN acc
    ELSE LET raw == Trim(parts[i])
             num == ParseFloat(Cleaned(raw))
             withRaw == [acc EXCEPT !.rawValues = Append(@, raw)]
         IN  IF raw = <<>> \/ raw = <<"-">>
             THEN ParseParts(parts, i + 1,
                      [withRaw EXCEPT !.values = Append(@, Zero)])
             ELSE IF num = NaN
             THEN ParseParts(parts, i + 1,
                      [withRaw EXCEPT !.errors = Append(@, InvalidValue(i, raw)),
                                      !.values = Append(@, Zero)])
             ELSE ParseParts(parts, i + 1,
                      [withRaw EXCEPT !.values = Append(@, num)])

parseClipboardTSV(text) ==
    LET parts == Split(Trim(text), Tab)
        r == ParseParts(parts, 1,
                 [values |-> <<>>, rawValues |-> <<>>, errors |-> <<>>])
    IN  IF Len(parts) = 0 \/ (Len(parts) = 1 /\ parts[1] = <<>>)
        THEN [values |-> <<>>, rawValues |-> <<>>, errors |-> <<NoData>>,
              isValid |-> FALSE]
        ELSE [values |-> r.values, rawValues |-> r.rawValues,
              errors |-> r.errors,
              isValid |-> (Len(r.errors) = 0 /\ Len(r.values) > 0)]

---------------------------------------------------------------------------
(* RollupEngine and CashflowProjector: BudgetTable.calculations.  Amounts  *)
(* in the tables are whole numbers.  The props the component reads are     *)
(* parameters: secs (sections), values (budgetValues), settings            *)
(* (cashflowSettings) and year.                                            *)

Months == 1..MONTHS
ZeroTotals == [m \in Months |-> 0]
EmptyMap == [x \in {} |-> 0]

\* budgetValues[componentId]?.[month] || 0
getComponentValue(values, componentId, month) ==
    IF <<componentId, month>> \in DOMAIN values
    THEN values[<<componentId, month>>] ELSE 0

\* signedValue taking the amount of every section as positive
signedValueUnsigned(section, componentId, month, values) ==
    getComponentValue(values, componentId, month)

\* const signedValue = section.type === 'expense' ? -value : value
signedValue(section, componentId, month, values) ==
    IF section.type = "expense"
    THEN -getComponentValue(values, componentId, month)
    ELSE getComponentValue(values, componentId, month)

\* the accumulation of one component into the three levels, all 12 months
Accumulate(acc, section, group, component, values) ==
    [groupTotals |->
        [acc.groupTotals EXCEPT ![group.id] =
            [m \in Months |-> @[m] + signedValue(section, component.id, m, values)]],
     sectionTotals |->
        [acc.sectionTotals EXCEPT ![section.id] =
            [m \in Months |-> @[m] + signedValue(section, component.id, m, values)]],
     grandTotals |->
        [m \in Months |->
            acc.grandTotals[m] + signedValue(section, component.id, m, values)]]

\* AddComponent skipping a component only for its own flag
AddComponentOwnFlagOnly(acc, section, group, component, values) ==
    IF component.is_disabled THEN acc
    ELSE Accumulate(acc, section, group, component, values)

\* the body of the component loop: if (component.is_disabled ||
\* group.is_disabled) continue
AddComponent(acc, section, group, component, values) ==
    IF component.is_disabled \/ group.is_disabled THEN acc
    ELSE Accumulate(acc, section, group, component, values)

RECURSIVE ComponentLoop(_, _, _, _, _)
ComponentLoop(acc, section, group, components, values) ==
    IF components = <<>> THEN acc
    ELSE ComponentLoop(AddComponent(acc, section, group, Head(components), values),
                       section, group, Tail(components), values)

RECURSIVE GroupLoop(_, _, _, _)
GroupLoop(acc, section, groups, values) ==
    IF groups = <<>> THEN acc
    ELSE LET group == Head(groups)
             started == [acc EXCEPT !.groupTotals =
                            (group.id :> ZeroTotals) @@ @]
         IN  GroupLoop(ComponentLoop(started, section, group,
                                     group.components, values),
                       section, Tail(groups), values)

RECURSIVE SectionLoop(_, _, _)
SectionLoop(acc, secs, values) ==
    IF secs = <<>> THEN acc
    ELSE LET section == Head(secs)
             started == [acc EXCEPT !.sectionTotals =
                            (section.id :> ZeroTotals) @@ @]
         IN  SectionLoop(GroupLoop(started, section, section.groups, values),
                         Tail(secs), values)

\* isBeforeStartingDate comparing the month only
isBeforeStartingDateMonthOnly(settings, checkYear, checkMonth) ==
    checkMonth < settings.starting_month

isBeforeStartingDate(settings, checkYear, checkMonth) ==
    IF checkYear < settings.starting_year THEN TRUE
    ELSE IF checkYear > settings.starting_year THEN FALSE
    ELSE checkMonth < settings.starting_month

NoBalance == [null |-> TRUE, balance |-> 0]
Balance(n) == [null |-> FALSE, balance |-> n]

\* the running-balance loop from `month` on, `cumulative` being the
\* accumulator before it
RECURSIVE BalanceLoop(_, _, _, _, _, _)
BalanceLoop(month, cumulative, grandTotals, settings, year, acc) ==
    IF month > MONTHS THEN acc
    ELSE IF isBeforeStartingDate(settings, year, month)
         THEN BalanceLoop(month + 1, cumulative, grandTotals, settings, year,
                          (month :> NoBalance) @@ acc)
         ELSE BalanceLoop(month + 1, cumulative + grandTotals[month],
                          grandTotals, settings, year,
                          (month :> Balance(cumulative + grandTotals[month])) @@ acc)

runningBalances(grandTotals, settings, year) ==
    BalanceLoop(1, settings.starting_balance, grandTotals, settings, year, EmptyMap)

\* Object.values(totals).reduce((a, b) => a + b, 0) over the months 1..n
RECURSIVE SumMonths(_, _)
SumMonths(totals, n) == IF n = 0 THEN 0 ELSE SumMonths(totals, n - 1) + totals[n]

\* the Total column of a row
YearTotal(totals) == SumMonths(totals, MONTHS)

BudgetTableCalculations(secs, values, settings, year) ==
    LET t == SectionLoop([groupTotals |-> EmptyMap, sectionTotals |-> EmptyMap,
                          grandTotals |-> ZeroTotals], secs, values)
    IN  [groupTotals |-> t.groupTotals, sectionTotals |-> t.sectionTotals,
         grandTotals |-> t.grandTotals,
         runningBalances |-> runningBalances(t.grandTotals, settings, year),
         groupYearTotal |-> [g \in DOMAIN t.groupTotals |-> YearTotal(t.groupTotals[g])],
         sectionYearTotal |-> [x \in DOMAIN t.sectionTotals |-> YearTotal(t.sectionTotals[x])],
         grandYearTotal |-> YearTotal(t.grandTotals)]

---------------------------------------------------------------------------
(* VarianceCalculator: ComparisonTable *)

\* getValue(componentId, month, type): values is budgetValues or actualValues
getValue(values, componentId, month) ==
    IF <<componentId, month>> \in DOMAIN values
    THEN values[<<componentId, month>>] ELSE 0

\* getDifference with the income direction for every section
getDifferenceIncomeOnly(budget, actual, componentId, month, sectionType) ==
    getValue(actual, componentId, month) - getValue(budget, componentId, month)

getDifference(budget, actual, componentId, month, sectionType) ==
    IF sectionType = "expense"
    THEN getValue(budget, componentId, month) - getValue(actual, componentId, month)
    ELSE getValue(actual, componentId, month) - getValue(budget, componentId, month)

ZeroPair == [budget |-> ZeroTotals, actual |-> ZeroTotals]

AddPair(pair, componentId, budget, actual) ==
    [budget |-> [m \in Months |-> pair.budget[m] + getValue(budget, componentId, m)],
     actual |-> [m \in Months |-> pair.actual[m] + getValue(actual, componentId, m)]]

RECURSIVE CompareComponentLoop(_, _, _, _, _, _)
CompareComponentLoop(acc, section, group, components, budget, actual) ==
    IF components = <<>> THEN acc
    ELSE LET component == Head(components)
             next == IF component.is_disabled THEN acc
                     ELSE [groupTotals |->
                              [acc.groupTotals EXCEPT ![group.id] =
                                  AddPair(@, component.id, budget, actual)],
                           sectionTotals |->
                              [acc.sectionTotals EXCEPT ![section.id] =
                                  AddPair(@, component.id, budget, actual)]]
         IN  CompareComponentLoop(next, section, group, Tail(components),
                                  budget, actual)

RECURSIVE CompareGroupLoop(_, _, _, _, _)
CompareGroupLoop(acc, section, groups, budget, actual) ==
    IF groups = <<>> THEN acc
    ELSE LET group == Head(groups)
             started == [acc EXCEPT !.groupTotals = (group.id :> ZeroPair) @@ @]
         IN  IF group.is_disabled
             THEN CompareGroupLoop(acc, section, Tail(groups), budget, actual)
             ELSE CompareGroupLoop(
                      CompareComponentLoop(started, section, group,
                                           group.components, budget, actual),
                      section, Tail(groups), budget, actual)

RECURSIVE CompareSectionLoop(_, _, _, _)
CompareSectionLoop(acc, secs, budget, actual) ==
    IF secs = <<>> THEN acc
    ELSE LET section == Head(secs)
             started == [acc EXCEPT !.sectionTotals = (section.id :> ZeroPair) @@ @]
         IN  CompareSectionLoop(
                 CompareGroupLoop(started, section, section.groups, budget, actual),
                 Tail(secs), budget, actual)

ComparisonTableCalculations(secs, budget, actual) ==
    CompareSectionLoop([groupTotals |-> EmptyMap, sectionTotals |-> EmptyMap],
                       secs, budget, actual)

\* renderDifferenceCell: the difference and the class of the cell
renderDifferenceCell(diff) ==
    [diff |-> diff,
     className |-> IF diff = 0 THEN "diff-neutral"
                   ELSE IF diff > 0 THEN "diff-favorable" ELSE "diff-unfavorable"]

\* totals[id]?.budget[m] || 0 and totals[id]?.actual[m] || 0
TotalOf(totals, id, side, month) ==
    IF id \in DOMAIN totals THEN totals[id][side][month] ELSE 0

\* the Diff row of a section or of a group
DiffRow(totals, id, sectionType) ==
    [m \in Months |->
        renderDifferenceCell(
            IF sectionType = "expense"
            THEN TotalOf(totals, id, "budget", m) - TotalOf(totals, id, "actual", m)
            ELSE TotalOf(totals, id, "actual", m) - TotalOf(totals, id, "budget", m))]

SeqSet(s) == { s[i] : i \in 1..Len(s) }

\* what the table shows: the Diff rows of every section, of every group that
\* is not disabled and of every component that is not disabled in such a group
ComparisonTableRender(secs, budget, actual) ==
    LET calc == ComparisonTableCalculations(secs, budget, actual)
        shownGroups(section) == { g \in SeqSet(section.groups) : ~ g.is_disabled }
        shownComponents(group) == { c \in SeqSet(group.components) : ~ c.is_disabled }
        groupRows == { <<x, g>> \in UNION { {x} \X shownGroups(x) : x \in SeqSet(secs) } : TRUE }
        componentRows == UNION { { <<r[1], c>> : c \in shownComponents(r[2]) } : r \in groupRows }
    IN  [groupTotals |-> calc.groupTotals,
         sectionTotals |-> calc.sectionTotals,
         sectionDiff |-> [id \in { x.id : x \in SeqSet(secs) } |->
             DiffRow(calc.sectionTotals, id,
                     (CHOOSE x \in SeqSet(secs) : x.id = id).type)],
         groupDiff |-> [id \in { r[2].id : r \in groupRows } |->
             DiffRow(calc.groupTotals, id,
                     (CHOOSE r \in groupRows : r[2].id = id)[1].type)],
         componentDiff |-> [id \in { r[2].id : r \in componentRows } |->
             [m \in Months |->
                 renderDifferenceCell(
                     getDifference(budget, actual, id, m,
                         (CHOOSE r \in componentRows : r[2].id = id)[1].type))]]]

---------------------------------------------------------------------------
(* The clipboard texts the parser is run on *)

\* Spreadsheet cells (as trimmed), each with the number it stands for and
\* whether it is no number at all.
KnownCells ==
    { [t |-> <<"1", ".", "2", "3", "4", ",", "5", "6">>, v |-> Rat(123456, 100), bad |-> FALSE],
      [t |-> <<"1", ",", "2", "3", "4", ".", "5", "6">>, v |-> Rat(123456, 100), bad |-> FALSE],
      [t |-> <<"(", "1", "0", "0", ")">>,                v |-> Num(-100),        bad |-> FALSE],
      [t |-> <<"€", "5", "0">>,                          v |-> Num(50),          bad |-> FALSE],
      [t |-> <<"$", "1", ",", "0", "0", "0">>,           v |-> Num(1000),        bad |-> FALSE],
      [t |-> <<"1", "2", ",", "5">>,                     v |-> Rat(25, 2),       bad |-> FALSE],
      [t |-> <<"7">>,                                    v |-> Num(7),           bad |-> FALSE],
      [t |-> <<"-">>,                                    v |-> Zero,             bad |-> FALSE],
      [t |-> <<>>,                                       v |-> Zero,             bad |-> FALSE],
      [t |-> <<"a", "b", "c">>,                          v |-> Zero,             bad |-> TRUE],
      [t |-> <<"-", "-">>,                               v |-> Zero,             bad |-> TRUE] }

CellTexts == { c.t : c \in KnownCells }

MaxCells == 2
RECURSIVE JoinTabs(_)
JoinTabs(cells) ==
    IF Len(cells) = 1 THEN cells[1]
    ELSE cells[1] \o <<Tab>> \o JoinTabs(Tail(cells))

\* one copied row of at most MaxCells known cells
Rows == { JoinTabs(r) : r \in UNION { [1..n -> CellTexts] : n \in 1..MaxCells } }

MaxClipLen == 4
ClipAlphabet == {"1", ",", ".", "(", ")", "a", "-", Tab}
\* every text over ClipAlphabet of at most MaxClipLen characters
RawClips == UNION { [1..n -> ClipAlphabet] : n \in 0..MaxClipLen }

\* cells with a fraction of three and of four digits
DottedCells == { <<"1", ".", "2", "3", "4">>, <<"1", ".", "2", "3", "4", "5">> }

\* accounting negatives: a whole number, a European and a US amount
AccountingCells ==
    { <<"(", "7", ")">>, <<"(", "1", "2", ",", "5", ")">>,
      <<"(", "1", ",", "2", "3", "4", ".", "5", "6", ")">> }

ClipIdle == [done |-> FALSE, values |-> <<>>, rawValues |-> <<>>,
             errors |-> <<>>, isValid |-> FALSE]

InitClip ==
    /\ clipText \in Rows \cup RawClips \cup DottedCells \cup AccountingCells
    /\ clipOut = ClipIdle

\* handlePaste: const parsed = parseClipboardTSV(text)
ParseClipboard ==
    /\ ~ clipOut.done
    /\ clipOut' = [done |-> TRUE] @@ parseClipboardTSV(clipText)
    /\ UNCHANGED clipText

ExprIdle == [done |-> FALSE, evaluated |-> Null, numValue |-> Zero]

---------------------------------------------------------------------------
(* The cell texts the evaluator is run on *)

Str1(a) == <<a>>

\* Unsigned decimal literals, each with the number it denotes.
Operands ==
    { [t |-> <<"1", "0", "0">>, v |-> Num(100)],
      [t |-> <<"2", "0", "0">>, v |-> Num(200)],
      [t |-> <<"1", "0">>,      v |-> Num(10)],
      [t |-> <<"3">>,           v |-> Num(3)],
      [t |-> <<"0">>,           v |-> Num(0)],
      [t |-> <<"0", ".", "0">>, v |-> Num(0)],
      [t |-> <<"2", ".", "5">>, v |-> Rat(5, 2)],
      [t |-> <<"5", ".">>,      v |-> Num(5)] }

Pads == {<<>>, <<" ">>}

\* 'LEFT OP RIGHT' and 'BASE OP PCT%', with optional blanks around the
\* operator and around the whole text.
BinaryParts ==
    [kind : {"binary"}, left : Operands, op : Operators, right : Operands,
     ws1 : Pads, ws2 : Pads, pad : Pads, pct : BOOLEAN]

BinaryText(p) ==
    p.pad \o p.left.t \o p.ws1 \o Str1(p.op) \o p.ws2 \o p.right.t
          \o (IF p.pct THEN <<"%">> ELSE <<>>) \o p.pad

MaxExprLen == 4
ExprAlphabet == {"1", "0", ".", "+", "-", "/", "%", " "}
\* every text over ExprAlphabet of at most MaxExprLen characters
RawTexts == UNION { [1..n -> ExprAlphabet] : n \in 0..MaxExprLen }

---------------------------------------------------------------------------
(* The hierarchies and value maps the tables are rendered from *)

MaxDisabled == 2
MaxRows == 2
MaxVarianceRows == 3

GroupIds == {11, 12, 21}
ComponentIds == {1, 2, 3, 4}
SectionTypes == {"income", "expense"}

\* two sections; the first has a group of two components and a group of one,
\* the second a group of one; D holds the ids whose is_disabled flag is set
Tree(type1, type2, D) ==
    << [id |-> 1, type |-> type1, groups |->
           << [id |-> 11, is_disabled |-> 11 \in D, components |->
                  << [id |-> 1, is_disabled |-> 1 \in D],
                     [id |-> 2, is_disabled |-> 2 \in D] >>],
              [id |-> 12, is_disabled |-> 12 \in D, components |->
                  << [id |-> 3, is_disabled |-> 3 \in D] >>] >>],
       [id |-> 2, type |-> type2, groups |->
           << [id |-> 21, is_disabled |-> 21 \in D, components |->
                  << [id |-> 4, is_disabled |-> 4 \in D] >>] >>] >>

Hierarchies ==
    { Tree(t1, t2, D) : t1 \in SectionTypes, t2 \in SectionTypes,
                        D \in { D \in SUBSET (GroupIds \cup ComponentIds) :
                                    Cardinality(D) <= MaxDisabled } }

\* the maps component id, month -> amount with at most n rows
ValueMaps(keys, amounts, n) ==
    UNION { [K -> amounts] : K \in { K \in SUBSET keys : Cardinality(K) <= n } }

RollupValues == ValueMaps(ComponentIds \X {1, 12}, {50, 100}, MaxRows)
CashflowValues == ValueMaps({1, 4} \X {3, 4}, {100, 300}, MaxRows)
\* budget and actual rows of one month, told apart by the first field
VarianceRows == ValueMaps({"budget", "actual"} \X {1, 2, 4}, {50, 100},
                          MaxVarianceRows)
SideOf(rows, side) ==
    [k \in { <<r[2], 1>> : r \in { r \in DOMAIN rows : r[1] = side } } |->
        rows[<<side, k[1]>>]]

AnchorYear == 2024
CashflowSettings ==
    [starting_balance : {0, 1000}, starting_year : {AnchorYear},
     starting_month : {1, 3, 12}]
DefaultSettings ==
    [starting_balance |-> 0, starting_year |-> AnchorYear, starting_month |-> 1]

TableIdle == [done |-> FALSE]
TablesIdle ==
    /\ sections = <<>> /\ budgetValues = EmptyMap /\ actualValues = EmptyMap
    /\ cashflowSettings = DefaultSettings
    /\ tableOut = TableIdle /\ compareOut = TableIdle
TablesAtRest == TablesIdle /\ selectedYear = AnchorYear

\* BudgetTable renders: the calculations memo and the Total cells
RenderBudgetTable ==
    /\ ~ tableOut.done
    /\ tableOut' = [done |-> TRUE] @@
           BudgetTableCalculations(sections, budgetValues, cashflowSettings,
                                   selectedYear)
    /\ UNCHANGED <<tableIn, selectedYear, compareOut>>

\* ComparisonTable renders: the calculations memo and the Diff rows
RenderComparisonTable ==
    /\ ~ compareOut.done
    /\ compareOut' = [done |-> TRUE] @@
           ComparisonTableRender(sections, budgetValues, actualValues)
    /\ UNCHANGED <<tableIn, selectedYear, tableOut>>

---------------------------------------------------------------------------
(* EditSessionController: EditDrawer, with App around it and the server's  *)
(* budget values behind it                                                 *)

None == 0

\* values[month] || 0
ValueAt(values, month) == IF month \in DOMAIN values THEN values[month] ELSE Zero

DigitChar(k) == CHOOSE c \in Digits : DigitValue(c) = k

RECURSIVE NatToString(_)
NatToString(n) ==
    IF n < 10 THEN <<DigitChar(n)>>
    ELSE NatToString(n \div 10) \o <<DigitChar(n % 10)>>

RECURSIVE PadLeft(_, _)
PadLeft(s, k) == IF Len(s) >= k THEN s ELSE PadLeft(<<"0">> \o s, k)

\* String(x) for an amount x: a whole number, or a decimal of up to three
\* places (the amounts an edit session holds here)
NumberToString(x) ==
    LET n == Abs(x[1])
        sign == IF x[1] < 0 THEN <<"-">> ELSE <<>>
        k == CHOOSE k \in 0..3 :
                 /\ Pow10(k) % x[2] = 0
                 /\ \A j \in 0..(k - 1) : Pow10(j) % x[2] # 0
        scaled == n * (Pow10(k) \div x[2])
    IN  IF x[2] = 1 THEN sign \o NatToString(n)
        ELSE sign \o NatToString(scaled \div Pow10(k)) \o <<".">>
                  \o PadLeft(NatToString(scaled % Pow10(k)), k)

\* currentValue === 0 ? '' : String(currentValue)
CellText(value) == IF value = Zero THEN <<>> ELSE NumberToString(value)

\* the buffer holds no loaded values: useState<MonthlyValues>({}), setValues({})
NoSource == [componentId |-> None, year |-> None]

\* useState<ParsedClipboardData | null>(null)
NoPaste == [values |-> <<>>, rawValues |-> <<>>, errors |-> <<>>,
            isValid |-> FALSE, set |-> FALSE]

\* no drag of the fill handle is under way
NoGesture == [values |-> EmptyMap, hasChanges |-> FALSE, on |-> FALSE]

\* useState / useRef initial values of an EditDrawer rendered with year y;
\* valuesFrom is the request whose response setValues(valuesData) took last,
\* loadFailed whether the load that settled last went to the catch, dragFrom
\* the buffer and the dirty flag as the mouse-down of the drag found them
NewDrawer(y) ==
    [values |-> EmptyMap, loading |-> FALSE, selectedCell |-> None,
     isDragging |-> FALSE, dragStart |-> None, dragEnd |-> None,
     hasChanges |-> FALSE, editingMonth |-> None, editingValue |-> <<>>,
     dragSourceValueRef |-> Zero, previousComponentIdRef |-> None,
     valuesRef |-> EmptyMap, hasChangesRef |-> FALSE, yearRef |-> y,
     activeInput |-> None, valuesFrom |-> NoSource, loadFailed |-> FALSE,
     dragFrom |-> NoGesture, pasteData |-> NoPaste, pastePreviewOpen |-> FALSE]

\* the body of the PUT updateBudgetValues sends; JSON.stringify takes the map
\* as it is at the call
PutRequest(componentId, currentYear, valuesToSave) ==
    [componentId |-> componentId, year |-> currentYear, values |-> valuesToSave]

\* the load/save effect that never saves when the drawer closes
LoadSaveEffectSwitchOnly(d, currentId, y) ==
    LET previousId == d.previousComponentIdRef
        reset == [d EXCEPT !.previousComponentIdRef = currentId,
                           !.hasChanges = FALSE, !.hasChangesRef = FALSE,
                           !.activeInput = None, !.loadFailed = FALSE]
    IN  [put |-> IF previousId # None /\ currentId # None /\ previousId # currentId
                    /\ d.hasChangesRef
                 THEN <<PutRequest(previousId, d.yearRef, d.valuesRef)>>
                 ELSE <<>>,
         drawer |-> IF currentId = None
                    THEN [reset EXCEPT !.values = EmptyMap, !.valuesRef = EmptyMap,
                                       !.valuesFrom = NoSource]
                    ELSE [reset EXCEPT !.loading = TRUE],
         get |-> IF currentId = None THEN {}
                 ELSE {[componentId |-> currentId, year |-> y]}]

\* the load/save effect, run after a render with component id currentId (or
\* None) and year y: the PUT it dispatches, the instance it leaves, and the
\* GET it starts.  The inputs are not rendered while loading or closed.
LoadSaveEffect(d, currentId, y) ==
    LET previousId == d.previousComponentIdRef
        reset == [d EXCEPT !.previousComponentIdRef = currentId,
                           !.hasChanges = FALSE, !.hasChangesRef = FALSE,
                           !.activeInput = None, !.loadFailed = FALSE]
    IN  [put |-> IF previousId # None /\ previousId # currentId /\ d.hasChangesRef
                 THEN <<PutRequest(previousId, d.yearRef, d.valuesRef)>>
                 ELSE <<>>,
         drawer |-> IF currentId = None
                    THEN [reset EXCEPT !.values = EmptyMap, !.valuesRef = EmptyMap,
                                       !.valuesFrom = NoSource]
                    ELSE [reset EXCEPT !.loading = TRUE],
         get |-> IF currentId = None THEN {}
                 ELSE {[componentId |-> currentId, year |-> y]}]

\* the cleanup that saves nothing
UnmountCleanupNoFlush(d) == <<>>

\* the cleanup of the unmount effect: it runs at unmount and whenever
\* onValuesChange is a new function, before the effects of that render
UnmountCleanup(d) ==
    IF d.previousComponentIdRef # None /\ d.hasChangesRef
    THEN <<PutRequest(d.previousComponentIdRef, d.yearRef, d.valuesRef)>>
    ELSE <<>>

\* the table of inputs is rendered
TableShown == mounted /\ editingComponent # None /\ ~ drawer.loading

\* commitValue(month), on instance d
commitValue(d, month) ==
    LET newValues == (month :> numValue(d.editingValue)) @@ d.values
    IN  [d EXCEPT !.values = newValues, !.valuesRef = newValues,
                  !.hasChanges = TRUE, !.hasChangesRef = TRUE,
                  !.editingMonth = None, !.editingValue = <<>>]

\* handleCellBlur(month)
handleCellBlur(d, month) ==
    IF d.editingMonth = month THEN commitValue(d, month) ELSE d

\* handleCellFocus(month)
handleCellFocus(d, month) ==
    [d EXCEPT !.selectedCell = month, !.editingMonth = month,
              !.editingValue = CellText(ValueAt(d.values, month)),
              !.activeInput = month]

\* the input of `month` takes the focus: the input that had it is blurred
MoveFocus(d, month) ==
    IF d.activeInput = month THEN d
    ELSE IF d.activeInput = None THEN handleCellFocus(d, month)
    ELSE handleCellFocus(handleCellBlur(d, d.activeInput), month)

\* whether instance d2 holds a buffer change that d does not
Changed(d, d2) == IF d2.values # d.values \/ (d2.hasChanges /\ ~ d.hasChanges)
                  THEN 1 ELSE 0

Min(a, b) == IF a < b THEN a ELSE b
Max(a, b) == IF a > b THEN a ELSE b

\* the fill loop stopping one month short of the end
FillRangeExclusive(values, start, end, sourceValue) ==
    [m \in DOMAIN values \cup (start..(end - 1)) |->
        IF m \in start..(end - 1) THEN sourceValue ELSE values[m]]

\* for (let i = start; i <= end; i++) newValues[i] = sourceValue
FillRange(values, start, end, sourceValue) ==
    [m \in DOMAIN values \cup (start..end) |->
        IF m \in start..end THEN sourceValue ELSE values[m]]

\* handleFillHandleMouseDown(month), on instance d
handleFillHandleMouseDown(d, month) ==
    LET committing == d.editingMonth = month /\ d.editingValue # <<>>
        committed == IF committing THEN commitValue(d, month) ELSE d
    IN  [committed EXCEPT
            !.dragSourceValueRef = IF committing THEN numValue(d.editingValue)
                                   ELSE ValueAt(d.values, month),
            !.isDragging = TRUE, !.dragStart = month, !.dragEnd = month]

\* handleMouseUp, on instance d
handleMouseUp(d) ==
    LET newValues == FillRange(d.values, Min(d.dragStart, d.dragEnd),
                               Max(d.dragStart, d.dragEnd), d.dragSourceValueRef)
        filled == IF d.isDragging /\ d.dragStart # None /\ d.dragEnd # None
                     /\ d.dragStart # d.dragEnd
                  THEN [d EXCEPT !.values = newValues, !.valuesRef = newValues,
                                 !.hasChanges = TRUE, !.hasChangesRef = TRUE]
                  ELSE d
    IN  [filled EXCEPT !.isDragging = FALSE, !.dragStart = None, !.dragEnd = None]

\* valuesToMonthlyValues that starts at January whatever the start month
valuesToMonthlyValuesFromJanuary(values, startMonth) ==
    [m \in { i \in 1..Len(values) : i <= MONTHS } |-> values[m]]

\* valuesToMonthlyValues(values, startMonth)
valuesToMonthlyValues(values, startMonth) ==
    [m \in { startMonth + i : i \in { j \in 0..(Len(values) - 1) :
                                        startMonth + j <= MONTHS } }
        |-> values[m - startMonth + 1]]

\* handlePaste that merges the parsed values at once
handlePasteApplying(d, text) ==
    LET parsed == parseClipboardTSV(text)
        merged == valuesToMonthlyValues(parsed.values,
                      IF d.selectedCell = None THEN 1 ELSE d.selectedCell)
                  @@ d.values
    IN  [d EXCEPT !.values = merged, !.valuesRef = merged]

\* handlePaste, once readText() has resolved with `text`, on instance d
handlePaste(d, text) ==
    LET parsed == parseClipboardTSV(text)
    IN  IF Len(parsed.values) = 0 THEN d
        ELSE [d EXCEPT !.pasteData = [set |-> TRUE] @@ parsed,
                       !.pastePreviewOpen = TRUE]

\* handlePasteConfirm, on instance d
handlePasteConfirm(d) ==
    IF ~ d.pasteData.set THEN d
    ELSE LET startMonth == IF d.selectedCell = None THEN 1 ELSE d.selectedCell
             merged == valuesToMonthlyValues(d.pasteData.values, startMonth)
                       @@ d.values
         IN  [d EXCEPT !.values = merged, !.valuesRef = merged,
                       !.hasChanges = TRUE, !.hasChangesRef = TRUE,
                       !.pastePreviewOpen = FALSE, !.pasteData = NoPaste]

\* handlePasteCancel, on instance d
handlePasteCancel(d) ==
    [d EXCEPT !.pastePreviewOpen = FALSE, !.pasteData = NoPaste]

\* the upsert whose conflict target leaves out component_id: the months of
\* every component of the year are written
ServerUpsertAnyComponent(store, req) ==
    LET rows == [m \in DOMAIN req.values \cap Months |-> req.values[m]]
    IN  [key \in DOMAIN store \cup {<<req.componentId, req.year>>} |->
            IF key[2] = req.year
            THEN rows @@ (IF key \in DOMAIN store THEN store[key] ELSE EmptyMap)
            ELSE store[key]]

\* saveValues dispatching the PUT again when it has failed
saveValuesRetrying(d, request, ok) ==
    [put |-> IF ok THEN <<>> ELSE <<request>>, drawer |-> d]

\* saveValues (and the then / catch of the unmount cleanup) once
\* updateBudgetValues(request) has settled: onValuesChange() or console.error.
\* The PUTs it dispatches and the instance it leaves.
saveValues(d, request, ok) == [put |-> <<>>, drawer |-> d]

\* GET /budget/component/:componentId/:year: all 12 months, 0 where no row is
ServerRead(store, componentId, y) ==
    [m \in Months |->
        IF <<componentId, y>> \in DOMAIN store /\ m \in DOMAIN store[<<componentId, y>>]
        THEN store[<<componentId, y>>][m] ELSE Zero]

\* PUT /budget/component/:componentId: one upsert per month 1..12 of the body
ServerUpsert(store, req) ==
    LET key == <<req.componentId, req.year>>
        old == IF key \in DOMAIN store THEN store[key] ELSE EmptyMap
        rows == [m \in DOMAIN req.values \cap Months |-> req.values[m]]
    IN  (key :> (rows @@ old)) @@ store

---------------------------------------------------------------------------
(* The edit sessions that are explored *)


\* sessions that move between components and years, with few edits
MaxEdits == 1
MaxSwitches == 2
\* sessions that stay with the component they open, with more edits
MaxFillEdits == 2
MaxFillSwitches == 1
\* sessions in one component that use the cells and the fill handle
MaxCellEdits == 2
MaxCellSwitches == 1
\* sessions in one component that paste rows and close the drawer
MaxPasteEdits == 1
MaxPasteSwitches == 2
\* sessions that go from component to component, edit each and save
MaxRaceEdits == 2
MaxRaceSwitches == 3

DrawerComponents == {1, 2}
Years == {AnchorYear, AnchorYear + 1}
\* the cells the user focuses and drags over
FocusMonths == {3, 6}
\* what the user types into a cell
EditTexts == { <<"8", "0">> }
\* the rows the user copies from a spreadsheet: two cells of which one is no
\* number, and eight cells
PasteRows ==
    { <<"7", Tab, "a", "b", "c">>,
      <<"1", Tab, "2", Tab, "3", Tab, "4", Tab, "5", Tab, "6", Tab, "7", Tab, "8">> }
\* the rows of budget_values when the session starts
StoredValues == <<1, AnchorYear>> :> ((1 :> Num(100)) @@ (5 :> Num(40)))

DrawerAtRest ==
    /\ mounted = FALSE /\ editingComponent = None
    /\ drawer = NewDrawer(AnchorYear)
    /\ loads = {} /\ timers = {} /\ flushes = <<>> /\ served = <<>>
    /\ serverValues = StoredValues /\ editsLeft = 0 /\ switchesLeft = 0

\* the budget view has just been rendered: the drawer is closed
InitDrawer ==
    /\ mounted = TRUE /\ editingComponent = None
    /\ selectedYear = AnchorYear
    /\ drawer = NewDrawer(AnchorYear)
    /\ loads = {} /\ timers = {} /\ flushes = <<>> /\ served = <<>>
    /\ serverValues = StoredValues

\* the GETs of `gets` on their way, dispatched after `after` PUTs
Dispatched(gets, after) ==
    { [componentId |-> r.componentId, year |-> r.year, after |-> after] :
        r \in gets }

\* a render with a new component prop, and its effects
Reselect(currentId) ==
    LET e == LoadSaveEffect(drawer, currentId, selectedYear)
    IN  /\ editingComponent' = currentId
        /\ drawer' = e.drawer
        /\ flushes' = flushes \o e.put
        /\ loads' = loads \cup Dispatched(e.get, Len(flushes) + Len(e.put))
        /\ switchesLeft > 0 /\ switchesLeft' = switchesLeft - 1
        /\ UNCHANGED <<mounted, selectedYear, timers, served, serverValues, editsLeft>>

\* App.handleComponentSelect
SelectComponent ==
    /\ mounted
    /\ \E id \in DrawerComponents : id # editingComponent /\ Reselect(id)

\* App.handleCloseDrawer: onClose of the overlay, of the close and Save
\* buttons, and of the Escape key
CloseDrawer ==
    /\ mounted /\ editingComponent # None
    /\ Reselect(None)

\* YearSelector.onYearChange: handleValuesChange becomes a new function, so
\* the cleanup of the unmount effect runs, then yearRef is synced and the
\* load/save effect runs again
ChangeYear ==
    /\ mounted
    /\ \E y \in Years \ {selectedYear} :
        LET put == UnmountCleanup(drawer)
            e == LoadSaveEffect([drawer EXCEPT !.yearRef = y], editingComponent, y)
        IN  /\ selectedYear' = y
            /\ drawer' = e.drawer
            /\ flushes' = flushes \o put \o e.put
            /\ loads' = loads \cup Dispatched(e.get, Len(flushes) + Len(put)
                                                       + Len(e.put))
    /\ switchesLeft > 0 /\ switchesLeft' = switchesLeft - 1
    /\ UNCHANGED <<mounted, editingComponent, timers, served, serverValues, editsLeft>>

\* App.handleSwitchBudget: the budget view, and EditDrawer with it, goes
SwitchBudget ==
    /\ mounted
    /\ mounted' = FALSE /\ editingComponent' = None
    /\ flushes' = flushes \o UnmountCleanup(drawer)
    /\ drawer' = NewDrawer(selectedYear)
    /\ loads' = {} /\ timers' = {}
    /\ switchesLeft > 0 /\ switchesLeft' = switchesLeft - 1
    /\ UNCHANGED <<selectedYear, served, serverValues, editsLeft>>

\* App.handleBudgetSelect: the budget view is rendered again
BudgetSelect ==
    /\ ~ mounted
    /\ mounted' = TRUE
    /\ drawer' = NewDrawer(selectedYear)
    /\ switchesLeft > 0 /\ switchesLeft' = switchesLeft - 1
    /\ UNCHANGED <<editingComponent, selectedYear, loads, timers, flushes,
                   served, serverValues, editsLeft>>

\* the Promise.all of the load resolves: then, finally
LoadResolved ==
    /\ mounted
    /\ \E r \in loads :
        LET valuesData == ServerRead(serverValues, r.componentId, r.year)
        IN  /\ drawer' = [drawer EXCEPT
                              !.values = valuesData, !.valuesRef = valuesData,
                              !.loading = FALSE, !.loadFailed = FALSE,
                              !.valuesFrom = [componentId |-> r.componentId,
                                              year |-> r.year]]
            /\ timers' = timers \cup {ValueAt(valuesData, 1)}
            /\ loads' = loads \ {r}
    /\ UNCHANGED <<mounted, editingComponent, selectedYear, flushes, served,
                   serverValues, editsLeft, switchesLeft>>

\* the Promise.all of the load rejects: catch, finally
LoadRejected ==
    /\ mounted
    /\ \E r \in loads :
        /\ drawer' = [drawer EXCEPT !.loading = FALSE, !.loadFailed = TRUE]
        /\ loads' = loads \ {r}
    /\ UNCHANGED <<mounted, editingComponent, selectedYear, timers, flushes,
                   served, serverValues, editsLeft, switchesLeft>>

\* the setTimeout callback of the load: focus the first input if it is
\* rendered, then select and edit month 1 with the loaded first value
FocusTimer ==
    /\ mounted
    /\ \E firstValue \in timers :
        \E d \in {[(IF TableShown THEN MoveFocus(drawer, 1) ELSE drawer)
                      EXCEPT !.selectedCell = 1, !.editingMonth = 1,
                             !.editingValue = CellText(firstValue)]} :
            /\ Changed(drawer, d) <= editsLeft
            /\ editsLeft' = editsLeft - Changed(drawer, d)
            /\ drawer' = d
            /\ timers' = timers \ {firstValue}
    /\ UNCHANGED <<mounted, editingComponent, selectedYear, loads, flushes,
                   served, serverValues, switchesLeft>>

\* the user clicks or tabs into another cell: onBlur, then onFocus
CellFocus ==
    /\ TableShown
    /\ \E month \in FocusMonths :
        \E d \in {MoveFocus(drawer, month)} :
            /\ month # drawer.activeInput
            /\ Changed(drawer, d) <= editsLeft
            /\ editsLeft' = editsLeft - Changed(drawer, d)
            /\ drawer' = d
    /\ UNCHANGED <<mounted, editingComponent, selectedYear, loads, timers,
                   flushes, served, serverValues, switchesLeft>>

\* handleValueChange: the user types in the focused input
ValueChange ==
    /\ TableShown /\ drawer.activeInput # None
    /\ \E text \in EditTexts :
        /\ text # drawer.editingValue
        /\ drawer' = [drawer EXCEPT !.editingValue = text]
    /\ UNCHANGED <<mounted, editingComponent, selectedYear, loads, timers,
                   flushes, served, serverValues, editsLeft, switchesLeft>>

\* handleValueChange with '': the user deletes the text of the focused input
ValueCleared ==
    /\ TableShown /\ drawer.activeInput # None
    /\ drawer.editingValue # <<>>
    /\ drawer' = [drawer EXCEPT !.editingValue = <<>>]
    /\ UNCHANGED <<mounted, editingComponent, selectedYear, loads, timers,
                   flushes, served, serverValues, editsLeft, switchesLeft>>

\* Enter, ArrowDown or a click elsewhere: the focused input is blurred
CellBlur ==
    /\ TableShown /\ drawer.activeInput # None
    /\ \E d \in {[handleCellBlur(drawer, drawer.activeInput)
                     EXCEPT !.activeInput = None]} :
           /\ Changed(drawer, d) <= editsLeft
           /\ editsLeft' = editsLeft - Changed(drawer, d)
           /\ drawer' = d
    /\ UNCHANGED <<mounted, editingComponent, selectedYear, loads, timers,
                   flushes, served, serverValues, switchesLeft>>

\* handleFillHandleMouseDown(month) on the handle of the selected cell
FillHandleMouseDown ==
    /\ TableShown /\ ~ drawer.isDragging /\ drawer.selectedCell # None
    /\ \E d \in {[handleFillHandleMouseDown(drawer, drawer.selectedCell)
                     EXCEPT !.dragFrom = [values |-> drawer.values,
                                          hasChanges |-> drawer.hasChangesRef,
                                          on |-> TRUE]]} :
           /\ Changed(drawer, d) <= editsLeft
           /\ editsLeft' = editsLeft - Changed(drawer, d)
           /\ drawer' = d
    /\ UNCHANGED <<mounted, editingComponent, selectedYear, loads, timers,
                   flushes, served, serverValues, switchesLeft>>

\* handleMouseMove: the cell closest to the pointer becomes dragEnd
MouseMove ==
    /\ TableShown /\ drawer.isDragging /\ drawer.dragStart # None
    /\ \E closestCell \in FocusMonths :
        /\ closestCell # drawer.dragEnd
        /\ drawer' = [drawer EXCEPT !.dragEnd = closestCell]
    /\ UNCHANGED <<mounted, editingComponent, selectedYear, loads, timers,
                   flushes, served, serverValues, editsLeft, switchesLeft>>

\* handleMouseUp
MouseUp ==
    /\ mounted /\ drawer.isDragging
    /\ \E d \in {[handleMouseUp(drawer) EXCEPT !.dragFrom = NoGesture]} :
           /\ Changed(drawer, d) <= editsLeft
           /\ editsLeft' = editsLeft - Changed(drawer, d)
           /\ drawer' = d
    /\ UNCHANGED <<mounted, editingComponent, selectedYear, loads, timers,
                   flushes, served, serverValues, switchesLeft>>

\* Cmd+V / Ctrl+V with a row of cells on the clipboard: handlePaste
PasteRead ==
    /\ mounted /\ editingComponent # None
    /\ \E text \in PasteRows :
        \E d \in {handlePaste(drawer, text)} :
            /\ d # drawer
            /\ drawer' = d
    /\ UNCHANGED <<mounted, editingComponent, selectedYear, loads, timers,
                   flushes, served, serverValues, editsLeft, switchesLeft>>

\* the Apply button of the preview: handlePasteConfirm
PasteConfirm ==
    /\ mounted /\ drawer.pastePreviewOpen
    /\ \E d \in {handlePasteConfirm(drawer)} :
           /\ Changed(drawer, d) <= editsLeft
           /\ editsLeft' = editsLeft - Changed(drawer, d)
           /\ drawer' = d
    /\ UNCHANGED <<mounted, editingComponent, selectedYear, loads, timers,
                   flushes, served, serverValues, switchesLeft>>

\* the Cancel and close buttons and the overlay of the preview:
\* handlePasteCancel
PasteCancel ==
    /\ mounted /\ drawer.pastePreviewOpen
    /\ drawer' = handlePasteCancel(drawer)
    /\ UNCHANGED <<mounted, editingComponent, selectedYear, loads, timers,
                   flushes, served, serverValues, editsLeft, switchesLeft>>

\* the PUTs that have not settled yet, by their index in flushes
Pending == (1..Len(flushes)) \ { served[k].flush : k \in 1..Len(served) }

\* the server handles one of the PUTs on their way, and the response arrives
ServerPut ==
    /\ \E i \in Pending :
        \E out \in {saveValues(drawer, flushes[i], TRUE)} :
            /\ serverValues' = ServerUpsert(serverValues, flushes[i])
            /\ served' = Append(served, [flush |-> i, ok |-> TRUE])
            /\ drawer' = out.drawer
            /\ flushes' = flushes \o out.put
    /\ UNCHANGED <<mounted, editingComponent, selectedYear, loads,
                   timers, editsLeft, switchesLeft>>

\* one of the PUTs on their way fails (fetchJSON throws): nothing is stored
ServerPutFailed ==
    /\ \E i \in Pending :
        \E out \in {saveValues(drawer, flushes[i], FALSE)} :
            /\ served' = Append(served, [flush |-> i, ok |-> FALSE])
            /\ drawer' = out.drawer
            /\ flushes' = flushes \o out.put
    /\ UNCHANGED <<mounted, editingComponent, selectedYear, loads,
                   timers, serverValues, editsLeft, switchesLeft>>

NextDrawer ==
    \/ SelectComponent \/ CloseDrawer \/ ChangeYear
    \/ SwitchBudget \/ BudgetSelect
    \/ LoadResolved \/ LoadRejected \/ FocusTimer
    \/ CellFocus \/ ValueChange \/ CellBlur
    \/ FillHandleMouseDown \/ MouseMove \/ MouseUp
    \/ ServerPut \/ ServerPutFailed

---------------------------------------------------------------------------
(* BudgetStore: the tables of database.ts and the routes that write them.  *)
(* A table is the set of its rows; a request body is a record that holds   *)
(* the fields the JSON body has; the entries of an object are the sequence *)
(* Object.entries yields.                                                  *)

\* parseInt(text, 10): <<n>>, or <<>> for NaN
parseInt(text) ==
    LET s == TrimLeft(text)
        signed == s # <<>> /\ s[1] \in {"+", "-"}
        b == IF signed THEN 2 ELSE 1
        n == DigitRun(s, b)
    IN  IF n = 0 THEN <<>>
        ELSE <<(IF signed /\ s[1] = "-" THEN -1 ELSE 1)
                   * DigitsValue(SubSeq(s, b, b + n - 1))>>

\* monthNum >= 1 && monthNum <= 12
InRange(monthNum) == monthNum # <<>> /\ monthNum[1] >= 1 /\ monthNum[1] <= 12

\* UNIQUE(component_id, year, month)
SameKey(row, componentId, y, month) ==
    row.component_id = componentId /\ row.year = y /\ row.month = month

\* the upsert with ON CONFLICT ... DO NOTHING
upsertKeepingOld(table, componentId, y, month, amount) ==
    IF \E row \in table : SameKey(row, componentId, y, month) THEN table
    ELSE table \cup {[component_id |-> componentId, year |-> y,
                      month |-> month, amount |-> amount]}

\* INSERT INTO budget_values ... ON CONFLICT(component_id, year, month)
\* DO UPDATE SET amount = excluded.amount
upsert(table, componentId, y, month, amount) ==
    { row \in table : ~ SameKey(row, componentId, y, month) }
        \cup {[component_id |-> componentId, year |-> y,
               month |-> month, amount |-> amount]}

\* one turn of the loop of the transaction
upsertEntry(table, componentId, y, monthNum, amount) ==
    IF InRange(monthNum) THEN upsert(table, componentId, y, monthNum[1], amount)
    ELSE table

\* the transaction: for (const [month, amount] of Object.entries(values))
RECURSIVE upsertEntries(_, _, _, _)
upsertEntries(table, componentId, y, entries) ==
    IF entries = <<>> THEN table
    ELSE upsertEntries(upsertEntry(table, componentId, y,
                                   parseInt(entries[1][1]), entries[1][2]),
                       componentId, y, Tail(entries))

\* the rows of table components
components == {1}

\* !year
NoYear(body) == "year" \notin DOMAIN body \/ body.year = 0

\* PUT /component/:componentId of the budget and of the actuals routes, on the
\* table of the route: the status of the response and the table afterwards
putComponentValues(table, componentId, body) ==
    IF NoYear(body) \/ "values" \notin DOMAIN body
    THEN [status |-> 400, table |-> table]
    ELSE IF componentId \notin components
    THEN [status |-> 404, table |-> table]
    ELSE [status |-> 200,
          table |-> upsertEntries(table, componentId, body.year, body.values)]

\* GET /component/:componentId/:year: result[month] = 0 for the 12 months,
\* then result[value.month] = value.amount for the rows selected
getComponentValues(table, componentId, y) ==
    [month \in Months |->
        IF \E row \in table : SameKey(row, componentId, y, month)
        THEN (CHOOSE row \in table : SameKey(row, componentId, y, month)).amount
        ELSE Zero]

\* the loop body that stores whatever text is not the empty string
noteEntryUntrimmed(table, componentId, y, monthNum, note) ==
    IF ~ InRange(monthNum) THEN table
    ELSE IF note # <<>>
    THEN { row \in table : ~ SameKey(row, componentId, y, monthNum[1]) }
            \cup {[component_id |-> componentId, year |-> y,
                   month |-> monthNum[1], note |-> note]}
    ELSE { row \in table : ~ SameKey(row, componentId, y, monthNum[1]) }

\* one turn of the loop of the notes transaction: upsert.run with the trimmed
\* note, or deleteNote.run
noteEntry(table, componentId, y, monthNum, note) ==
    IF ~ InRange(monthNum) THEN table
    ELSE IF note # <<>> /\ Trim(note) # <<>>
    THEN { row \in table : ~ SameKey(row, componentId, y, monthNum[1]) }
            \cup {[component_id |-> componentId, year |-> y,
                   month |-> monthNum[1], note |-> Trim(note)]}
    ELSE { row \in table : ~ SameKey(row, componentId, y, monthNum[1]) }

\* the transaction: for (const [month, note] of Object.entries(notes))
RECURSIVE noteEntries(_, _, _, _)
noteEntries(table, componentId, y, entries) ==
    IF entries = <<>> THEN table
    ELSE noteEntries(noteEntry(table, componentId, y,
                               parseInt(entries[1][1]), entries[1][2]),
                     componentId, y, Tail(entries))

\* PUT /component/:componentId of the notes route
putComponentNotes(table, componentId, body) ==
    IF NoYear(body) \/ "notes" \notin DOMAIN body
    THEN [status |-> 400, table |-> table]
    ELSE IF componentId \notin components
    THEN [status |-> 404, table |-> table]
    ELSE [status |-> 200,
          table |-> noteEntries(table, componentId, body.year, body.notes)]

\* the texts the loop of the transaction has taken, last one per key
RECURSIVE textsWritten(_, _, _, _)
textsWritten(last, componentId, y, entries) ==
    IF entries = <<>> THEN last
    ELSE textsWritten(
             IF InRange(parseInt(entries[1][1]))
             THEN (<<componentId, y, parseInt(entries[1][1])[1]>> :> entries[1][2])
                      @@ last
             ELSE last,
             componentId, y, Tail(entries))

\* CHECK(starting_month BETWEEN 1 AND 12), CHECK(cutoff_month BETWEEN 1 AND 12)
monthCheck(month) == month >= 1 /\ month <= 12

\* the update that inserts without deleting the row there is
replaceRowKeeping(rows, row, month) ==
    IF monthCheck(month) THEN [status |-> 200, rows |-> Append(rows, row)]
    ELSE [status |-> 500, rows |-> rows]

\* DELETE FROM the settings table, then INSERT of `row`: the INSERT throws
\* when the CHECK of the month fails, after the DELETE has been done
replaceRow(rows, row, month) ==
    IF monthCheck(month) THEN [status |-> 200, rows |-> <<row>>]
    ELSE [status |-> 500, rows |-> <<>>]

\* PUT / of the cashflow-settings route
putCashflowSettings(rows, body) ==
    IF {"starting_balance", "starting_year", "starting_month"} \subseteq DOMAIN body
    THEN replaceRow(rows, [starting_balance |-> body.starting_balance,
                           starting_year |-> body.starting_year,
                           starting_month |-> body.starting_month],
                    body.starting_month)
    ELSE [status |-> 400, rows |-> rows]

\* PUT /cutoff/settings of the actuals route
putCutoffSettings(rows, body) ==
    IF {"cutoff_year", "cutoff_month"} \subseteq DOMAIN body
    THEN replaceRow(rows, [cutoff_year |-> body.cutoff_year,
                           cutoff_month |-> body.cutoff_month],
                    body.cutoff_month)
    ELSE [status |-> 400, rows |-> rows]

---------------------------------------------------------------------------
(* The requests the routes are given *)

\* how many entries the values / notes object of a body holds at most
MaxEntries == 2

\* the component ids of the requests: 2 is not a row of components
RequestComponents == {1, 2}
\* the keys of a values / notes object, in the order Object.entries yields
\* them (integer keys ascending)
MonthKeys == << <<"3">>, <<"5">>, <<"1", "3">> >>
BudgetAmounts == {Num(40), Num(70)}
ActualAmounts == {Num(40)}

\* the objects with at most MaxEntries of MonthKeys and payloads among items
EntryLists(items) ==
    UNION { { [i \in 1..k |-> <<MonthKeys[e[i][1]], e[i][2]>>] :
                e \in { f \in [1..k -> (1..Len(MonthKeys)) \X items] :
                          \A i \in 1..(k - 1) : f[i][1] < f[i + 1][1] } } :
            k \in 0..MaxEntries }

\* the bodies of the PUTs of values: with and without year and values
ValueBodies(amounts) ==
    { [year |-> y, values |-> e] : y \in {0, AnchorYear}, e \in EntryLists(amounts) }
        \cup { [values |-> e] : e \in EntryLists(amounts) }
        \cup { [year |-> AnchorYear] }

NoResponse == [route |-> "none"]

StoreAtRest ==
    /\ budget_values = {} /\ actual_values = {} /\ budget_notes = {}
    /\ lastNotes = EmptyMap
    /\ cashflow_settings = <<>> /\ actuals_cutoff_settings = <<>>
    /\ response = NoResponse

\* PUT /api/budget/component/:componentId
PutBudgetValues ==
    /\ \E componentId \in RequestComponents, body \in ValueBodies(BudgetAmounts) :
        \E out \in {putComponentValues(budget_values, componentId, body)} :
            /\ budget_values' = out.table
            /\ response' = [route |-> "budget", componentId |-> componentId,
                            body |-> body, status |-> out.status]
    /\ UNCHANGED <<actual_values, budget_notes, lastNotes, cashflow_settings,
                   actuals_cutoff_settings>>

\* PUT /api/actuals/component/:componentId
PutActualValues ==
    /\ \E componentId \in RequestComponents, body \in ValueBodies(ActualAmounts) :
        \E out \in {putComponentValues(actual_values, componentId, body)} :
            /\ actual_values' = out.table
            /\ response' = [route |-> "actuals", componentId |-> componentId,
                            body |-> body, status |-> out.status]
    /\ UNCHANGED <<budget_values, budget_notes, lastNotes, cashflow_settings,
                   actuals_cutoff_settings>>

\* the texts of the notes: empty, blank, padded, plain
NoteTexts == { <<>>, <<" ">>, <<" ", "a">>, <<"b">> }

NoteBodies ==
    { [year |-> AnchorYear, notes |-> e] : e \in EntryLists(NoteTexts) }
        \cup { [notes |-> e] : e \in EntryLists(NoteTexts) }
        \cup { [year |-> AnchorYear] }

\* PUT /api/notes/component/:componentId
PutNotes ==
    /\ \E componentId \in RequestComponents, body \in NoteBodies :
        \E out \in {putComponentNotes(budget_notes, componentId, body)} :
            /\ budget_notes' = out.table
            /\ lastNotes' = IF out.status = 200
                            THEN textsWritten(lastNotes, componentId, body.year,
                                              body.notes)
                            ELSE lastNotes
            /\ response' = [route |-> "notes", componentId |-> componentId,
                            body |-> body, status |-> out.status]
    /\ UNCHANGED <<budget_values, actual_values, cashflow_settings,
                   actuals_cutoff_settings>>

\* the bodies with some of `fields`, each with one of the values of its range
Bodies(fields, range(_)) ==
    UNION { { f \in [present -> UNION { range(k) : k \in fields }] :
                \A k \in present : f[k] \in range(k) } :
            present \in SUBSET fields }

CashflowRange(field) ==
    CASE field = "starting_balance" -> {0, 500}
      [] field = "starting_year" -> {AnchorYear, AnchorYear + 1}
      [] field = "starting_month" -> {1, 13}

CutoffRange(field) ==
    CASE field = "cutoff_year" -> {AnchorYear, AnchorYear + 1}
      [] field = "cutoff_month" -> {6, 13}

\* PUT /api/cashflow-settings
PutCashflowSettings ==
    /\ \E body \in Bodies({"starting_balance", "starting_year", "starting_month"},
                         CashflowRange) :
        \E out \in {putCashflowSettings(cashflow_settings, body)} :
            /\ cashflow_settings' = out.rows
            /\ response' = [route |-> "cashflow", body |-> body,
                            status |-> out.status]
    /\ UNCHANGED <<budget_values, actual_values, budget_notes, lastNotes,
                   actuals_cutoff_settings>>

\* PUT /api/actuals/cutoff/settings
PutCutoffSettings ==
    /\ \E body \in Bodies({"cutoff_year", "cutoff_month"}, CutoffRange) :
        \E out \in {putCutoffSettings(actuals_cutoff_settings, body)} :
            /\ actuals_cutoff_settings' = out.rows
            /\ response' = [route |-> "cutoff", body |-> body,
                            status |-> out.status]
    /\ UNCHANGED <<budget_values, actual_values, budget_notes, lastNotes,
                   cashflow_settings>>

---------------------------------------------------------------------------
(* BudgetVsActualView: the actuals the user enters in the comparison table, *)
(* over the actual_values table.  The props year and actualValues are the   *)
(* variables selectedYear and actualValues; the parent fetches the actuals  *)
(* of the year again when the year changes and on onDataChange().           *)

\* GET /:year of the actuals route, as <<componentId, month>> -> amount
getActualValues(table, y) ==
    [k \in { <<row.component_id, row.month>> : row \in { r \in table : r.year = y } }
        |-> (CHOOSE row \in table :
                 row.year = y /\ row.component_id = k[1] /\ row.month = k[2]).amount]

\* displayActualValues: the pending changes merged over the prop
displayActualValues(actual, pending) == pending @@ actual

\* the body of updateActualValues(componentId, year, { [month]: value })
ActualBody(r) ==
    [year |-> r.year, values |-> << <<NatToString(r.month), r.value>> >>]

MaxActualEdits == 2
MaxYearChanges == 2
\* the cells of the comparison table the user edits, and what is entered
ViewComponents == {1}
ViewMonths == {3, 5}
ViewAmounts == {Num(40), Num(70)}

ViewAtRest ==
    /\ pendingActualChanges = EmptyMap /\ actualPuts = <<>>
    /\ actualEditsLeft = 0 /\ yearChangesLeft = 0

\* handleActualValueChange(componentId, month, value)
ActualValueChange ==
    /\ actualEditsLeft > 0 /\ actualEditsLeft' = actualEditsLeft - 1
    /\ \E componentId \in ViewComponents, month \in ViewMonths, value \in ViewAmounts :
        /\ pendingActualChanges' =
               (<<componentId, month>> :> value) @@ pendingActualChanges
        /\ actualPuts' = Append(actualPuts,
                                [componentId |-> componentId, year |-> selectedYear,
                                 month |-> month, value |-> value])
    /\ UNCHANGED <<selectedYear, actualValues, actual_values, response,
                   yearChangesLeft>>

\* the server handles one of the PUTs on their way; then onDataChange(): the
\* parent fetches the actuals of the year of the view
ActualPutServed ==
    /\ \E i \in 1..Len(actualPuts) :
        \E out \in {putComponentValues(actual_values, actualPuts[i].componentId,
                                       ActualBody(actualPuts[i]))} :
            /\ actual_values' = out.table
            /\ response' = [route |-> "actuals",
                            componentId |-> actualPuts[i].componentId,
                            body |-> ActualBody(actualPuts[i]),
                            status |-> out.status]
            /\ actualPuts' = SubSeq(actualPuts, 1, i - 1)
                                 \o SubSeq(actualPuts, i + 1, Len(actualPuts))
            /\ actualValues' = getActualValues(out.table, selectedYear)
    /\ UNCHANGED <<selectedYear, pendingActualChanges, actualEditsLeft,
                   yearChangesLeft>>

\* the year prop changes: the parent hands the view the actuals of that year
ViewYearChange ==
    /\ yearChangesLeft > 0 /\ yearChangesLeft' = yearChangesLeft - 1
    /\ \E y \in Years \ {selectedYear} :
        /\ selectedYear' = y
        /\ actualValues' = getActualValues(actual_values, y)
    /\ UNCHANGED <<pendingActualChanges, actualPuts, actual_values, response,
                   actualEditsLeft>>

---------------------------------------------------------------------------
(* Specifications *)

ExprAtRest ==
    exprParts = [kind |-> "raw"] /\ exprText = <<>> /\ exprOut = ExprIdle
ClipAtRest == clipText = <<>> /\ clipOut = ClipIdle

InitExpr ==
    /\ exprOut = ExprIdle
    /\ \/ /\ exprParts \in BinaryParts
          /\ exprText = BinaryText(exprParts)
       \/ /\ exprParts = [kind |-> "raw"]
          /\ exprText \in RawTexts
    /\ ClipAtRest /\ TablesAtRest /\ DrawerAtRest /\ StoreAtRest /\ ViewAtRest

\* commitValue (EditDrawer, InlineEditableCell): the number that is stored
CommitText ==
    /\ ~ exprOut.done
    /\ exprOut' = [done |-> TRUE,
                   evaluated |-> evaluateExpression(exprText),
                   numValue |-> numValue(exprText)]
    /\ UNCHANGED <<exprParts, exprText>>

NextExpr == CommitText /\ UNCHANGED <<clipVars, tableVars, drawerVars, storeVars, viewVars>>

SpecExpr == InitExpr /\ [][NextExpr]_vars

InitClipboard == InitClip /\ ExprAtRest /\ TablesAtRest /\ DrawerAtRest /\ StoreAtRest /\ ViewAtRest

NextClipboard == ParseClipboard /\ UNCHANGED <<exprVars, tableVars, drawerVars, storeVars, viewVars>>

SpecClipboard == InitClipboard /\ [][NextClipboard]_vars

InitRollup ==
    /\ sections \in Hierarchies
    /\ budgetValues \in RollupValues
    /\ actualValues = EmptyMap
    /\ selectedYear = AnchorYear /\ cashflowSettings = DefaultSettings
    /\ tableOut = TableIdle /\ compareOut = TableIdle
    /\ ExprAtRest /\ ClipAtRest /\ DrawerAtRest /\ StoreAtRest /\ ViewAtRest

NextRollup == RenderBudgetTable /\ UNCHANGED <<exprVars, clipVars, drawerVars, storeVars, viewVars>>

SpecRollup == InitRollup /\ [][NextRollup]_vars

InitCashflow ==
    /\ sections \in { h \in Hierarchies :
                        \A x \in SeqSet(h) : \A g \in SeqSet(x.groups) :
                            /\ ~ g.is_disabled
                            /\ \A c \in SeqSet(g.components) : ~ c.is_disabled }
    /\ budgetValues \in CashflowValues
    /\ actualValues = EmptyMap
    /\ selectedYear \in {AnchorYear - 1, AnchorYear, AnchorYear + 1}
    /\ cashflowSettings \in CashflowSettings
    /\ tableOut = TableIdle /\ compareOut = TableIdle
    /\ ExprAtRest /\ ClipAtRest /\ DrawerAtRest /\ StoreAtRest /\ ViewAtRest

SpecCashflow == InitCashflow /\ [][NextRollup]_vars

InitVariance ==
    /\ sections \in Hierarchies
    /\ \E rows \in VarianceRows :
           /\ budgetValues = SideOf(rows, "budget")
           /\ actualValues = SideOf(rows, "actual")
    /\ selectedYear = AnchorYear /\ cashflowSettings = DefaultSettings
    /\ tableOut = TableIdle /\ compareOut = TableIdle
    /\ ExprAtRest /\ ClipAtRest /\ DrawerAtRest /\ StoreAtRest /\ ViewAtRest

NextVariance ==
    (RenderBudgetTable \/ RenderComparisonTable)
    /\ UNCHANGED <<exprVars, clipVars, drawerVars, storeVars, viewVars>>

SpecVariance == InitVariance /\ [][NextVariance]_vars


Init ==
    /\ InitDrawer /\ editsLeft = MaxEdits /\ switchesLeft = MaxSwitches
    /\ ExprAtRest /\ ClipAtRest /\ TablesIdle /\ StoreAtRest /\ ViewAtRest

Next == NextDrawer /\ UNCHANGED <<exprVars, clipVars, tableState, storeVars, viewVars>>

Spec == Init /\ [][Next]_vars

InitFill ==
    /\ InitDrawer /\ editsLeft = MaxFillEdits /\ switchesLeft = MaxFillSwitches
    /\ ExprAtRest /\ ClipAtRest /\ TablesIdle /\ StoreAtRest /\ ViewAtRest

\* one component is opened and edited; nothing else is selected
NextFill ==
    /\ \/ SelectComponent
       \/ LoadResolved \/ LoadRejected \/ FocusTimer
       \/ CellFocus \/ ValueChange \/ CellBlur
       \/ FillHandleMouseDown \/ MouseMove \/ MouseUp
    /\ UNCHANGED <<exprVars, clipVars, tableState, storeVars, viewVars>>

SpecFill == InitFill /\ [][NextFill]_vars

InitRace ==
    /\ InitDrawer /\ editsLeft = MaxRaceEdits /\ switchesLeft = MaxRaceSwitches
    /\ ExprAtRest /\ ClipAtRest /\ TablesIdle /\ StoreAtRest /\ ViewAtRest

\* components are opened, edited in their cells and left, while the loads
\* and the saves settle in any order
NextRace ==
    /\ \/ SelectComponent \/ CloseDrawer
       \/ LoadResolved \/ LoadRejected \/ FocusTimer
       \/ CellFocus \/ ValueChange \/ CellBlur
       \/ ServerPut \/ ServerPutFailed
    /\ UNCHANGED <<exprVars, clipVars, tableState, storeVars, viewVars>>

SpecRace == InitRace /\ [][NextRace]_vars

InitCells ==
    /\ InitDrawer /\ editsLeft = MaxCellEdits /\ switchesLeft = MaxCellSwitches
    /\ ExprAtRest /\ ClipAtRest /\ TablesIdle /\ StoreAtRest /\ ViewAtRest

\* one component is opened and its cells are edited, cleared and filled
NextCells ==
    /\ \/ SelectComponent
       \/ LoadResolved \/ FocusTimer
       \/ CellFocus \/ ValueChange \/ ValueCleared \/ CellBlur
       \/ FillHandleMouseDown \/ MouseMove \/ MouseUp
    /\ UNCHANGED <<exprVars, clipVars, tableState, storeVars, viewVars>>

SpecCells == InitCells /\ [][NextCells]_vars

InitPaste ==
    /\ InitDrawer /\ editsLeft = MaxPasteEdits /\ switchesLeft = MaxPasteSwitches
    /\ ExprAtRest /\ ClipAtRest /\ TablesIdle /\ StoreAtRest /\ ViewAtRest

\* one component is opened, a cell is selected, rows are pasted, and the
\* drawer is closed
NextPaste ==
    /\ \/ SelectComponent \/ CloseDrawer
       \/ LoadResolved \/ FocusTimer \/ CellFocus
       \/ PasteRead \/ PasteConfirm \/ PasteCancel
    /\ UNCHANGED <<exprVars, clipVars, tableState, storeVars, viewVars>>

SpecPaste == InitPaste /\ [][NextPaste]_vars

InitStore ==
    /\ StoreAtRest /\ ViewAtRest
    /\ ExprAtRest /\ ClipAtRest /\ TablesAtRest /\ DrawerAtRest

NextValues ==
    /\ PutBudgetValues \/ PutActualValues
    /\ UNCHANGED <<exprVars, clipVars, tableVars, drawerVars, viewVars>>

SpecValues == InitStore /\ [][NextValues]_vars

NextNotes ==
    /\ PutNotes
    /\ UNCHANGED <<exprVars, clipVars, tableVars, drawerVars, viewVars>>

SpecNotes == InitStore /\ [][NextNotes]_vars

NextSettings ==
    /\ PutCashflowSettings \/ PutCutoffSettings
    /\ UNCHANGED <<exprVars, clipVars, tableVars, drawerVars, viewVars>>

SpecSettings == InitStore /\ [][NextSettings]_vars

\* the budget-vs-actual view over an empty actual_values table
InitActuals ==
    /\ ExprAtRest /\ ClipAtRest /\ TablesAtRest /\ DrawerAtRest /\ StoreAtRest
    /\ pendingActualChanges = EmptyMap /\ actualPuts = <<>>
    /\ actualEditsLeft = MaxActualEdits /\ yearChangesLeft = MaxYearChanges

NextActuals ==
    /\ ActualValueChange \/ ActualPutServed \/ ViewYearChange
    /\ UNCHANGED <<exprVars, clipVars, drawerVars, sections, budgetValues,
                   cashflowSettings, tableOut, compareOut, budget_values,
                   budget_notes, lastNotes, cashflow_settings,
                   actuals_cutoff_settings>>

SpecActuals == InitActuals /\ [][NextActuals]_vars

---------------------------------------------------------------------------
(* Properties of the expression evaluator *)

OperatorCount(s) == Cardinality({i \in 1..Len(s) : s[i] \in Operators})

PercentOf(base, pct) == Over(Times(base, pct), Num(100))

\* C7: evaluateExpression on 'BASE OP PCT%' returns BASE + BASE*PCT/100 for
\* +, BASE - BASE*PCT/100 for -, BASE*PCT/100 for * and BASE / (PCT/100) for
\* / with PCT # 0; on 'LEFT OP RIGHT' it returns the arithmetic result (for
\* / with RIGHT # 0); text with no operator, with more than one operator or
\* with a leading sign is not an expression (null); "100+10%" gives 110 and
\* "200*3" gives 600.
ExprEvaluatesForms ==
    exprOut.done =>
        LET r == exprOut.evaluated
            p == exprParts
            t == Trim(exprText)
        IN  /\ (p.kind = "binary" /\ p.pct) =>
                   LET B == p.left.v
                       P == p.right.v
                   IN  /\ p.op = "+" => r = Plus(B, PercentOf(B, P))
                       /\ p.op = "-" => r = Minus(B, PercentOf(B, P))
                       /\ p.op = "*" => r = PercentOf(B, P)
                       /\ (p.op = "/" /\ P # Zero) =>
                              r = Over(B, Over(P, Num(100)))
            /\ (p.kind = "binary" /\ ~ p.pct) =>
                   LET L == p.left.v
                       R == p.right.v
                   IN  /\ p.op = "+" => r = Plus(L, R)
                       /\ p.op = "-" => r = Minus(L, R)
                       /\ p.op = "*" => r = Times(L, R)
                       /\ (p.op = "/" /\ R # Zero) => r = Over(L, R)
            /\ OperatorCount(exprText) = 0 => r = Null
            /\ OperatorCount(exprText) >= 2 => r = Null
            /\ (t # <<>> /\ t[1] \in {"+", "-"}) => r = Null
            /\ exprText = <<"1", "0", "0", "+", "1", "0", "%">> => r = Num(110)
            /\ exprText = <<"2", "0", "0", "*", "3">> => r = Num(600)

\* "100+10%" has been committed and evaluated to 110
ExprPercentCommitted ==
    /\ exprOut.done
    /\ exprText = <<"1", "0", "0", "+", "1", "0", "%">>
    /\ exprOut.evaluated = Num(110)

\* C8: committing text that divides by zero ('BASE/0%' or 'LEFT/0') never
\* stores infinity: the evaluator signals failure (null) and the committed
\* value is 0.
DivisionByZeroCommitsZero ==
    (/\ exprOut.done
     /\ exprParts.kind = "binary"
     /\ exprParts.op = "/"
     /\ exprParts.right.v = Zero) =>
        /\ exprOut.evaluated = Null
        /\ exprOut.numValue = Zero

---------------------------------------------------------------------------
(* Properties of the clipboard parser *)

EndsInCommaDigits(c) ==
    \/ Len(c) >= 2 /\ c[Len(c) - 1] = "," /\ c[Len(c)] \in Digits
    \/ Len(c) >= 3 /\ c[Len(c) - 2] = ","
                   /\ c[Len(c) - 1] \in Digits /\ c[Len(c)] \in Digits

HasDotThenThreeDigits(c) ==
    \E i \in 1..Len(c) :
        c[i] = "." /\ i + 3 <= Len(c) /\ \A j \in 1..3 : c[i + j] \in Digits

\* the number a cell stands for, read as the claim describes the notation
NotationValue(raw) ==
    LET c == RemoveAll(raw, CurrencySymbols \cup WhiteSpace)
        n == IF EndsInCommaDigits(c) \/ HasDotThenThreeDigits(c)
             THEN ReplaceFirst(RemoveAll(c, {"."}), ",", ".")
             ELSE RemoveAll(c, {","})
    IN  OrZero(ParseFloat(n))

ClipParsedAs(text, values) ==
    (clipOut.done /\ clipText = text) => clipOut.values = values

\* C9: parseClipboardTSV treats a cell as European notation when it ends in
\* a comma followed by 1 or 2 digits or contains a dot followed by three
\* digits: all dots are removed and the (first) comma becomes the decimal
\* point; otherwise all commas are removed (US notation).  "1.234,56" and
\* "1,234.56" parse to 1234.56, "€50" to 50 and "-" to 0.
ClipboardLocaleNotation ==
    /\ clipOut.done =>
          \A i \in 1..Len(clipOut.rawValues) :
              LET raw == clipOut.rawValues[i]
              IN  (/\ raw # <<>> /\ raw # <<"-">>
                   /\ \A k \in 1..Len(raw) : raw[k] \notin {"(", ")"})
                  => clipOut.values[i] = NotationValue(raw)
    /\ ClipParsedAs(<<"1", ".", "2", "3", "4", ",", "5", "6">>, <<Rat(123456, 100)>>)
    /\ ClipParsedAs(<<"1", ",", "2", "3", "4", ".", "5", "6">>, <<Rat(123456, 100)>>)
    /\ ClipParsedAs(<<"€", "5", "0">>, <<Num(50)>>)
    /\ ClipParsedAs(<<"-">>, <<Zero>>)

\* a European and a US cell of one row have both been parsed to 1234.56
ClipBothNotationsParsed ==
    /\ clipOut.done
    /\ clipText = <<"1", ".", "2", "3", "4", ",", "5", "6", Tab,
                    "1", ",", "2", "3", "4", ".", "5", "6">>
    /\ clipOut.values = <<Rat(123456, 100), Rat(123456, 100)>>

InvalidPositions == { e.position : e \in { clipOut.errors[k] : k \in 1..Len(clipOut.errors) } }

\* C10: parseClipboardTSV always returns a result; every cell that is no
\* number adds exactly one error naming its 1-based position (and quoting
\* it) and contributes 0 to values, a cell that is a number adds none;
\* values and rawValues have the same length; isValid is true iff errors
\* is empty and values is non-empty.
ClipboardErrorsRecovered ==
    clipOut.done =>
        /\ Len(clipOut.values) = Len(clipOut.rawValues)
        /\ clipOut.isValid <=> (clipOut.errors = <<>> /\ clipOut.values # <<>>)
        /\ \A k \in 1..Len(clipOut.errors) :
              LET e == clipOut.errors[k]
              IN  IF e.kind = "nodata" THEN clipOut.values = <<>>
                  ELSE /\ e.position \in 1..Len(clipOut.values)
                       /\ clipOut.values[e.position] = Zero
                       /\ e.raw = clipOut.rawValues[e.position]
                       /\ \A j \in 1..Len(clipOut.errors) :
                              clipOut.errors[j].position = e.position => j = k
        /\ \A i \in 1..Len(clipOut.rawValues) :
              \A c \in KnownCells :
                  c.t = clipOut.rawValues[i] =>
                      /\ (i \in InvalidPositions) <=> c.bad
                      /\ clipOut.values[i] = c.v
        /\ \A i \in 1..Len(clipOut.values) : IsNum(clipOut.values[i])

\* a row with an invalid second cell gave one error, for position 2, and a 0
ClipInvalidCellReported ==
    /\ clipOut.done
    /\ clipText = <<"7", Tab, "a", "b", "c">>
    /\ clipOut.errors = <<InvalidValue(2, <<"a", "b", "c">>)>>
    /\ clipOut.values = <<Num(7), Zero>>
    /\ ~ clipOut.isValid

---------------------------------------------------------------------------
(* Properties of the rollup, the cashflow projection and the variance *)

RECURSIVE SumOver(_, _)
SumOver(f, S) ==
    IF S = {} THEN 0
    ELSE LET x == CHOOSE x \in S : TRUE IN f[x] + SumOver(f, S \ {x})

GroupsOf(section) == SeqSet(section.groups)
ComponentsOf(group) == SeqSet(group.components)
\* the components beneath a group that are not excluded
Included(group) ==
    { c \in ComponentsOf(group) : ~ c.is_disabled /\ ~ group.is_disabled }
Amount(values, c, m) ==
    IF <<c.id, m>> \in DOMAIN values THEN values[<<c.id, m>>] ELSE 0
Contribution(section, c, m) ==
    IF section.type = "expense" THEN 0 - Amount(budgetValues, c, m)
    ELSE Amount(budgetValues, c, m)

\* C1: in the rendered budget table, for every month a group total is the sum
\* of the signed contributions of its included components, a section total is
\* the sum of its groups' totals, the grand total is the sum of the section
\* totals, and the annual total of each level is the sum of its 12 monthly
\* totals.
RollupTotalsAreSums ==
    tableOut.done =>
        /\ \A m \in Months :
            /\ \A x \in SeqSet(sections) :
                /\ \A g \in GroupsOf(x) :
                       tableOut.groupTotals[g.id][m] =
                           SumOver([c \in Included(g) |-> Contribution(x, c, m)],
                                   Included(g))
                /\ tableOut.sectionTotals[x.id][m] =
                       SumOver([g \in GroupsOf(x) |-> tableOut.groupTotals[g.id][m]],
                               GroupsOf(x))
            /\ tableOut.grandTotals[m] =
                   SumOver([x \in SeqSet(sections) |-> tableOut.sectionTotals[x.id][m]],
                           SeqSet(sections))
        /\ \A x \in SeqSet(sections) :
            /\ tableOut.sectionYearTotal[x.id] =
                   SumOver([m \in Months |-> tableOut.sectionTotals[x.id][m]], Months)
            /\ \A g \in GroupsOf(x) :
                   tableOut.groupYearTotal[g.id] =
                       SumOver([m \in Months |-> tableOut.groupTotals[g.id][m]], Months)
        /\ tableOut.grandYearTotal =
               SumOver([m \in Months |-> tableOut.grandTotals[m]], Months)

\* an expense section whose two enabled components hold 100 and 50 in month 1
\* is rendered with the month-1 total -150
RollupExpenseExample ==
    /\ tableOut.done
    /\ sections[1].type = "expense"
    /\ \A g \in GroupsOf(sections[1]) :
           ~ g.is_disabled /\ \A c \in ComponentsOf(g) : ~ c.is_disabled
    /\ budgetValues = (<<1, 1>> :> 100) @@ (<<2, 1>> :> 50)
    /\ tableOut.sectionTotals[1][1] = -150
    /\ tableOut.groupTotals[11][1] = -150
    /\ tableOut.sectionYearTotal[1] = -150

\* a value map without the rows of component id
Without(values, id) ==
    [k \in { k \in DOMAIN values : k[1] # id } |-> values[k]]
HasRows(values, id) == \E k \in DOMAIN values : k[1] = id /\ values[k] # 0
Excluded(group, c) == c.is_disabled \/ group.is_disabled
RollupTotals(values) ==
    LET t == BudgetTableCalculations(sections, values, cashflowSettings, selectedYear)
    IN  <<t.groupTotals, t.sectionTotals, t.grandTotals>>
VarianceTotals(budget, actual) ==
    LET t == ComparisonTableCalculations(sections, budget, actual)
    IN  <<t.groupTotals, t.sectionTotals>>

\* C2: the totals of the rollup, and the budget and the actual totals of the
\* variance, are what they would be without the rows of a component exactly
\* when the component is disabled, its group is disabled, or it has no
\* amounts; so a disabled component and an enabled component of a disabled
\* group contribute nothing, and the same components are left out of both.
DisabledContributeNothing ==
    \A x \in SeqSet(sections) : \A g \in GroupsOf(x) : \A c \in ComponentsOf(g) :
        /\ tableOut.done =>
              ( <<tableOut.groupTotals, tableOut.sectionTotals, tableOut.grandTotals>>
                    = RollupTotals(Without(budgetValues, c.id))
                <=> (Excluded(g, c) \/ ~ HasRows(budgetValues, c.id)) )
        /\ compareOut.done =>
              /\ <<compareOut.groupTotals, compareOut.sectionTotals>>
                     = VarianceTotals(Without(budgetValues, c.id), actualValues)
                 <=> (Excluded(g, c) \/ ~ HasRows(budgetValues, c.id))
              /\ <<compareOut.groupTotals, compareOut.sectionTotals>>
                     = VarianceTotals(budgetValues, Without(actualValues, c.id))
                 <=> (Excluded(g, c) \/ ~ HasRows(actualValues, c.id))

\* both tables are rendered from a hierarchy in which component 1 is enabled
\* in its disabled group and holds a budget and an actual amount, and
\* component 4 is itself disabled and holds a budget amount
DisabledGroupRendered ==
    /\ tableOut.done /\ compareOut.done
    /\ sections[1].groups[1].is_disabled
    /\ ~ sections[1].groups[1].components[1].is_disabled
    /\ sections[2].groups[1].components[1].is_disabled
    /\ HasRows(budgetValues, 1) /\ HasRows(actualValues, 1)
    /\ HasRows(budgetValues, 4)
    /\ \A m \in Months : tableOut.grandTotals[m] = 0

\* the month precedes the anchor of the cashflow settings
Precedes(m) ==
    \/ selectedYear < cashflowSettings.starting_year
    \/ /\ selectedYear = cashflowSettings.starting_year
       /\ m < cashflowSettings.starting_month

\* C3: the running balance of month m of the selected year is undefined
\* exactly when the year is before the starting year, or is the starting year
\* and m is before the starting month; otherwise it is the starting balance
\* plus the grand totals of the months 1..m of that year that do not precede
\* the anchor.
CashflowProjection ==
    tableOut.done =>
        \A m \in Months :
            /\ tableOut.runningBalances[m].null <=> Precedes(m)
            /\ ~ Precedes(m) =>
                   tableOut.runningBalances[m].balance =
                       cashflowSettings.starting_balance +
                       SumOver([k \in 1..m |-> IF Precedes(k) THEN 0
                                               ELSE tableOut.grandTotals[k]], 1..m)

\* the anchor 1000, 2024, month 3 with the totals +300 in month 3 and -100 in
\* month 4 is rendered as undefined, undefined, 1300, 1200
CashflowAnchorExample ==
    /\ tableOut.done
    /\ cashflowSettings = [starting_balance |-> 1000, starting_year |-> 2024,
                           starting_month |-> 3]
    /\ selectedYear = 2024
    /\ tableOut.grandTotals[3] = 300 /\ tableOut.grandTotals[4] = -100
    /\ tableOut.runningBalances[1] = NoBalance
    /\ tableOut.runningBalances[2] = NoBalance
    /\ tableOut.runningBalances[3] = Balance(1300)
    /\ tableOut.runningBalances[4] = Balance(1200)

\* the difference of a level, from its unsigned budget and actual amounts
Direction(section, budget, actual) ==
    IF section.type = "expense" THEN budget - actual ELSE actual - budget
CellShows(cell, d) ==
    /\ cell.diff = d
    /\ cell.className = "diff-favorable" <=> d > 0
    /\ cell.className = "diff-unfavorable" <=> d < 0
    /\ cell.className = "diff-neutral" <=> d = 0
GroupAmount(values, g, m) ==
    SumOver([c \in Included(g) |-> Amount(values, c, m)], Included(g))
SectionAmount(values, x, m) ==
    SumOver([g \in GroupsOf(x) |-> GroupAmount(values, g, m)], GroupsOf(x))

\* C4: every Diff cell of a component, of a group and of a section shows
\* budget minus actual in an expense section and actual minus budget in an
\* income section, on the unsigned amounts of the level, and is favorable
\* exactly when the difference is positive, unfavorable exactly when it is
\* negative and neutral exactly when it is zero.
VarianceDirection ==
    compareOut.done =>
        \A x \in SeqSet(sections) : \A m \in Months :
            /\ CellShows(compareOut.sectionDiff[x.id][m],
                         Direction(x, SectionAmount(budgetValues, x, m),
                                      SectionAmount(actualValues, x, m)))
            /\ \A g \in { g \in GroupsOf(x) : ~ g.is_disabled } :
                /\ CellShows(compareOut.groupDiff[g.id][m],
                             Direction(x, GroupAmount(budgetValues, g, m),
                                          GroupAmount(actualValues, g, m)))
                /\ \A c \in Included(g) :
                       CellShows(compareOut.componentDiff[c.id][m],
                                 Direction(x, Amount(budgetValues, c, m),
                                              Amount(actualValues, c, m)))

\* spending 50 of an expense budget of 100 and earning 100 over an income
\* budget of nothing are both rendered favorable
VarianceBothFavorable ==
    /\ compareOut.done
    /\ sections[1].type = "expense" /\ sections[2].type = "income"
    /\ budgetValues = (<<1, 1>> :> 100)
    /\ actualValues = (<<1, 1>> :> 50) @@ (<<4, 1>> :> 100)
    /\ compareOut.componentDiff[1][1] = [diff |-> 50, className |-> "diff-favorable"]
    /\ compareOut.groupDiff[11][1] = [diff |-> 50, className |-> "diff-favorable"]
    /\ compareOut.sectionDiff[2][1] = [diff |-> 100, className |-> "diff-favorable"]

---------------------------------------------------------------------------
(* Properties of the edit session *)

\* C5: whenever the component EditDrawer is given changes from a component A
\* to another component or to none (close, Save, Escape, the budget view
\* going away), a PUT is dispatched in that step exactly when A's dirty flag
\* is set; it carries A's id, the year and the buffered month map of that
\* moment; after the step the dirty flag is clear and, if there is a new
\* component, its inputs are not rendered until its load is answered.
FlushOnEntityChange ==
    [][ (mounted /\ editingComponent # None
            /\ editingComponent' # editingComponent)
        => /\ flushes' =
                IF drawer.hasChanges
                THEN Append(flushes, [componentId |-> editingComponent,
                                      year |-> selectedYear,
                                      values |-> drawer.values])
                ELSE flushes
           /\ ~ drawer'.hasChanges /\ ~ drawer'.hasChangesRef
           /\ editingComponent' # None => drawer'.loading ]_vars

\* component 1, edited to 80 in month 3, was left for component 2: its PUT is
\* out, component 2 is loading and clean
FlushedBeforeNextComponent ==
    /\ mounted /\ editingComponent = 2 /\ switchesLeft = 0
    /\ Len(flushes) = 1
    /\ flushes[1].componentId = 1 /\ flushes[1].year = selectedYear
    /\ 3 \in DOMAIN flushes[1].values /\ flushes[1].values[3] = Num(80)
    /\ drawer.loading /\ ~ drawer.hasChanges

\* C6: a mouse-up that ends a drag from month s to a month t other than s
\* leaves the captured source value in every month of min(s,t)..max(s,t),
\* leaves every other month as it was, and sets the dirty flag.
DragFillRange ==
    [][ (mounted /\ mounted' /\ drawer.isDragging /\ ~ drawer'.isDragging
            /\ drawer.dragStart # None /\ drawer.dragEnd # None
            /\ drawer.dragStart # drawer.dragEnd)
        => LET lo == Min(drawer.dragStart, drawer.dragEnd)
               hi == Max(drawer.dragStart, drawer.dragEnd)
           IN  /\ \A m \in lo..hi :
                      /\ m \in DOMAIN drawer'.values
                      /\ drawer'.values[m] = drawer.dragSourceValueRef
               /\ \A m \in Months \ (lo..hi) :
                      /\ m \in DOMAIN drawer'.values <=> m \in DOMAIN drawer.values
                      /\ m \in DOMAIN drawer.values =>
                             drawer'.values[m] = drawer.values[m]
               /\ drawer'.hasChanges /\ drawer'.hasChangesRef ]_vars

\* month 3 was set to 80 and dragged to month 6: months 3..6 hold 80, month 5
\* lost its 40, and the other months hold what was loaded
DragFilledThreeToSix ==
    /\ mounted /\ editingComponent = 1 /\ editsLeft = 0 /\ flushes = <<>>
    /\ ~ drawer.isDragging /\ drawer.hasChanges
    /\ drawer.values = [m \in Months |-> IF m \in 3..6 THEN Num(80)
                                         ELSE IF m = 1 THEN Num(100) ELSE Zero]

---------------------------------------------------------------------------
(* Properties of the store *)

\* the index of the last entry of a values / notes object that the loop of
\* the transaction takes for `month`, 0 if there is none
LastEntryFor(entries, month) ==
    LET hits == { i \in 1..Len(entries) : parseInt(entries[i][1]) = <<month>> }
    IN  IF hits = {} THEN 0 ELSE CHOOSE i \in hits : \A j \in hits : j <= i

RowsFor(table, componentId, y, month) ==
    { row \in table : SameKey(row, componentId, y, month) }

RowsElsewhere(table, componentId, y) ==
    { row \in table : ~ (row.component_id = componentId /\ row.year = y) }

\* C11: when the budget route has stored the values of a body for an existing
\* component, the read of that component and year returns, for each month,
\* the amount the body gives it (the amount before, for a month the body does
\* not name; 0 where there is no row); every key has at most one row, the
\* rows of other components and years are as before, and the same request
\* handled a second time in a row leaves the table as it is.
UpsertThenRead ==
    [][ (response'.route = "budget" /\ response'.status = 200) =>
          /\ \A month \in Months :
                /\ getComponentValues(budget_values', response'.componentId,
                                      response'.body.year)[month]
                     = IF LastEntryFor(response'.body.values, month) # 0
                       THEN response'.body.values[
                                LastEntryFor(response'.body.values, month)][2]
                       ELSE getComponentValues(budget_values, response'.componentId,
                                               response'.body.year)[month]
                /\ Cardinality(RowsFor(budget_values', response'.componentId,
                                       response'.body.year, month)) <= 1
                /\ RowsFor(budget_values', response'.componentId,
                           response'.body.year, month) = {}
                     => getComponentValues(budget_values', response'.componentId,
                                           response'.body.year)[month] = Zero
          /\ RowsElsewhere(budget_values', response'.componentId, response'.body.year)
               = RowsElsewhere(budget_values, response'.componentId, response'.body.year)
          /\ response' = response => budget_values' = budget_values
      ]_vars

\* month 3 has been written twice, last with 70; month 5 keeps the 40 an
\* earlier request gave it, and no other month has a row
UpsertReadBack ==
    /\ response.route = "budget" /\ response.status = 200
    /\ response.body.values = << << <<"3">>, Num(70) >> >>
    /\ getComponentValues(budget_values, 1, AnchorYear)
         = [month \in Months |-> IF month = 3 THEN Num(70)
                                 ELSE IF month = 5 THEN Num(40) ELSE Zero]

\* a body the routes of values are to reject: no year, no values, or a key of
\* values that is not a month of 1..12
InvalidBody(body) ==
    \/ NoYear(body)
    \/ "values" \notin DOMAIN body
    \/ \E i \in 1..Len(body.values) : ~ InRange(parseInt(body.values[i][1]))

\* C12: a PUT of budget or actual values whose body lacks year or values, or
\* names a month outside 1..12, is answered with an error and leaves both
\* tables as they were.
InvalidPayloadRejected ==
    [][ (response'.route \in {"budget", "actuals"} /\ InvalidBody(response'.body)) =>
          /\ response'.status # 200
          /\ budget_values' = budget_values
          /\ actual_values' = actual_values
      ]_vars

NoteKey(row) == <<row.component_id, row.year, row.month>>

\* C15: after any sequence of PUTs of notes, a key of budget_notes has a row
\* exactly when the text last written to it is not empty after trimming; the
\* row holds that text trimmed, and no key has two rows.
NotesStoredIffNonEmpty ==
    /\ \A row \in budget_notes :
          /\ NoteKey(row) \in DOMAIN lastNotes
          /\ row.note = Trim(lastNotes[NoteKey(row)])
          /\ row.note # <<>>
          /\ \A other \in budget_notes : NoteKey(other) = NoteKey(row) => other = row
    /\ \A key \in DOMAIN lastNotes :
          Trim(lastNotes[key]) # <<>> => \E row \in budget_notes : NoteKey(row) = key

\* the note of month 3 has been written and then blanked, the note of month
\* 5 is stored without its padding
NoteDeletedAndNoteTrimmed ==
    /\ response.route = "notes" /\ response.status = 200
    /\ lastNotes = (<<1, AnchorYear, 3>> :> <<" ">>)
                      @@ (<<1, AnchorYear, 5>> :> <<" ", "a">>)
    /\ budget_notes = {[component_id |-> 1, year |-> AnchorYear, month |-> 5,
                        note |-> <<"a">>]}

\* C16: each settings table holds at most one row, and after a PUT answered
\* with 200 exactly one row, whose fields are those of the body of that PUT.
SettingsReplacedWholesale ==
    /\ Len(cashflow_settings) <= 1
    /\ Len(actuals_cutoff_settings) <= 1
    /\ (response.route = "cashflow" /\ response.status = 200)
          => cashflow_settings = <<response.body>>
    /\ (response.route = "cutoff" /\ response.status = 200)
          => actuals_cutoff_settings = <<response.body>>

\* the one row of cashflow_settings is the anchor of the last PUT, and a
\* cutoff set earlier is still the one row of its table
AnchorReplaced ==
    /\ response.route = "cashflow" /\ response.status = 200
    /\ response.body.starting_balance = 500
    /\ response.body.starting_year = AnchorYear + 1
    /\ cashflow_settings = <<[starting_balance |-> 500,
                              starting_year |-> AnchorYear + 1,
                              starting_month |-> 1]>>
    /\ actuals_cutoff_settings = <<[cutoff_year |-> AnchorYear, cutoff_month |-> 6]>>

---------------------------------------------------------------------------
(* Properties of the saves and the loads of the edit session *)

KeyOf(request) == <<request.componentId, request.year>>

\* the PUTs that were stored, and those that failed
Saved == { served[k].flush : k \in { j \in 1..Len(served) : served[j].ok } }
Failed == { served[k].flush : k \in { j \in 1..Len(served) : ~ served[j].ok } }

\* budget_values once the first n PUTs that are in `done` are stored in the
\* order they were dispatched
RECURSIVE StoredInOrder(_, _)
StoredInOrder(n, done) ==
    IF n = 0 THEN StoredValues
    ELSE IF n \in done THEN ServerUpsert(StoredInOrder(n - 1, done), flushes[n])
    ELSE StoredInOrder(n - 1, done)

\* C13: when the PUTs that were stored are for different (component, year),
\* the stored state is the one their dispatch order gives, in whatever order
\* they were handled, and each of them finds its own month map stored.
DisjointFlushesCommute ==
    (\A i, j \in Saved : i # j => KeyOf(flushes[i]) # KeyOf(flushes[j]))
    => /\ serverValues = StoredInOrder(Len(flushes), Saved)
       /\ \A i \in Saved : \A m \in DOMAIN flushes[i].values \cap Months :
              serverValues[KeyOf(flushes[i])][m] = flushes[i].values[m]

\* the PUT of component 2 was stored before the PUT of component 1, which was
\* dispatched first; both hold 80 in month 3
FlushesStoredOutOfOrder ==
    /\ Len(flushes) = 2
    /\ served = << [flush |-> 2, ok |-> TRUE], [flush |-> 1, ok |-> TRUE] >>
    /\ flushes[1].componentId = 1 /\ flushes[2].componentId = 2
    /\ ServerRead(serverValues, 1, AnchorYear)[3] = Num(80)
    /\ ServerRead(serverValues, 1, AnchorYear)[5] = Num(40)
    /\ ServerRead(serverValues, 2, AnchorYear)[3] = Num(80)
    /\ ServerRead(serverValues, 2, AnchorYear)[5] = Zero

\* C14: when a PUT settles, failed or not, no PUT is dispatched for it again
\* and the EditDrawer instance, the component it edits, its loads and its
\* timers are what they were; a failed PUT stores nothing.
FailedFlushOnlyLogged ==
    [][ Len(served') > Len(served) =>
          /\ flushes' = flushes
          /\ drawer' = drawer
          /\ mounted' = mounted /\ editingComponent' = editingComponent
          /\ loads' = loads /\ timers' = timers
          /\ ~ served'[Len(served')].ok => serverValues' = serverValues
      ]_vars

\* the PUT of component 1 has failed while component 2 is being edited: the
\* buffer of component 2 is dirty, nothing was stored, nothing is on its way
FlushFailedDuringNextSession ==
    /\ served = << [flush |-> 1, ok |-> FALSE] >> /\ Len(flushes) = 1
    /\ flushes[1].componentId = 1
    /\ editingComponent = 2 /\ drawer.hasChanges
    /\ serverValues = StoredValues

\* the PUTs dispatched in the step
NewFlushes == { flushes'[i] : i \in (Len(flushes) + 1)..Len(flushes') }

\* C17: while a component is edited, the answer to a load of another
\* component or year never replaces the buffer, and a PUT dispatched for a
\* component whose load did not fail carries a buffer that was loaded for
\* that component (or was never loaded).
StaleLoadNeverApplied ==
    [][ /\ \A r \in loads \ loads' :
              (mounted' /\ editingComponent # None
                  /\ (r.componentId # editingComponent \/ r.year # selectedYear))
              => /\ drawer'.values = drawer.values
                 /\ drawer'.valuesFrom = drawer.valuesFrom
        /\ \A f \in NewFlushes :
              ~ drawer.loadFailed
              => drawer.valuesFrom.componentId \in {None, f.componentId}
      ]_vars

\* C18: the values a load of (component, year) delivers agree, month by
\* month, with the last PUT for that component and year that was dispatched
\* before the load, unless that PUT failed.
LoadReflectsEarlierFlush ==
    [][ \A r \in loads \ loads' :
          (mounted' /\ ~ drawer'.loadFailed /\ ~ drawer'.loading)
          => \A i \in 1..r.after :
                (/\ KeyOf(flushes[i]) = <<r.componentId, r.year>>
                 /\ \A j \in (i + 1)..Len(flushes) :
                        KeyOf(flushes[j]) # KeyOf(flushes[i])
                 /\ i \notin Failed)
                => \A m \in DOMAIN flushes[i].values \cap Months :
                       drawer'.values[m] = flushes[i].values[m]
      ]_vars

\* C19: when the year changes while a component is edited and its buffer is
\* dirty, one PUT is dispatched in that step, for the component, the year
\* before the change and the buffer; the load of the new year is dispatched
\* after it and the inputs are not rendered until it is answered.
YearChangeFlushesOldYear ==
    [][ (mounted /\ mounted' /\ selectedYear' # selectedYear
            /\ editingComponent # None /\ drawer.hasChanges)
        => /\ flushes' = Append(flushes, [componentId |-> editingComponent,
                                          year |-> selectedYear,
                                          values |-> drawer.values])
           /\ drawer'.loading /\ ~ drawer'.hasChanges
           /\ [componentId |-> editingComponent, year |-> selectedYear',
               after |-> Len(flushes')] \in loads'
      ]_vars

\* component 1, edited to 80 in month 3 of the anchor year, is shown for the
\* next year: the PUT for the anchor year is out and the next year is loading
FlushedUnderOldYear ==
    /\ mounted /\ editingComponent = 1 /\ selectedYear = AnchorYear + 1
    /\ Len(flushes) = 1
    /\ flushes[1].componentId = 1 /\ flushes[1].year = AnchorYear
    /\ 3 \in DOMAIN flushes[1].values /\ flushes[1].values[3] = Num(80)
    /\ drawer.loading /\ ~ drawer.hasChanges

\* C20: when the load of the component that is edited fails before any
\* other load has been answered, the buffer its inputs then show was not
\* loaded for another component.
FailedLoadKeepsNoForeignValues ==
    [][ \A r \in loads \ loads' :
          (/\ mounted' /\ drawer.loading /\ drawer'.loadFailed
           /\ r.componentId = editingComponent /\ r.year = selectedYear)
          => drawer'.valuesFrom.componentId \in {None, editingComponent}
      ]_vars

---------------------------------------------------------------------------
(* Properties of the cells, the fill handle and the paste of the edit      *)
(* session                                                                 *)

\* C21: the dirty flag is set only by a step that changes the buffered
\* values: a cell that gains and loses the focus with its text untouched
\* leaves the flag clear, so that leaving the component dispatches no PUT.
DirtyOnlyByValueChange ==
    [][ (mounted /\ mounted' /\ ~ drawer.hasChangesRef /\ drawer'.hasChangesRef)
        => drawer'.values # drawer.values ]_vars

\* the number one field of the row stands for: trim, empty or "-" is 0,
\* otherwise what parseFloat makes of the cleaned text, 0 if it is no number
FieldValue(field) ==
    IF Trim(field) \in {<<>>, <<"-">>} THEN Zero
    ELSE OrZero(ParseFloat(Cleaned(Trim(field))))

\* C24: parseClipboardTSV yields one value per tab-separated field of the
\* row, in order, for at most the first 12 fields: values[i] is the parse of
\* field i, and an empty field, a leading or trailing one too, yields 0 at
\* its own position.
ClipFieldsInPlace ==
    (clipOut.done /\ \E k \in 1..Len(clipText) : clipText[k] \notin WhiteSpace)
    => LET fields == Split(clipText, Tab)
           n == Min(Len(fields), MONTHS)
       IN  /\ Len(clipOut.values) = n
           /\ \A i \in 1..n : clipOut.values[i] = FieldValue(fields[i])

\* digits, a dot, and four or more digits
LongFraction(raw) ==
    \E i \in 2..Len(raw) :
        /\ raw[i] = "." /\ Len(raw) - i >= 4
        /\ AllIn(raw, 1, i - 1, Digits) /\ AllIn(raw, i + 1, Len(raw), Digits)

\* C25: a dot followed by four or more digits is no thousands separator: a
\* cell such as "1.2345", with no comma, is read in US notation, the dot
\* being the decimal point.
DotThousandsExactlyThree ==
    clipOut.done =>
        \A i \in 1..Len(clipOut.rawValues) :
            LongFraction(clipOut.rawValues[i])
            => clipOut.values[i] = ParseFloat(clipOut.rawValues[i])

\* C26: for every unsigned numeric cell text N that parseClipboardTSV parses
\* to v, the cell "(N)" parses to -v, in European and in US notation.
ParenthesesNegate ==
    (/\ clipOut.done /\ Len(clipText) >= 3
     /\ clipText[1] = "(" /\ clipText[Len(clipText)] = ")"
     /\ clipText[2] \in Digits
     /\ \A k \in 2..(Len(clipText) - 1) : clipText[k] \in Digits \cup {",", "."})
    => LET N == parseClipboardTSV(SubSeq(clipText, 2, Len(clipText) - 1))
       IN  N.isValid => clipOut.values = <<Neg(N.values[1])>>

\* C22: the value a drag-fill writes is the value of the source cell with
\* its text as edited: when the mouse-down finds the source cell being
\* edited, the value it captures for the fill is what committing the text
\* would store, also when the text is empty, and not the stored value.
FillCapturesEditedText ==
    [][ (mounted /\ mounted' /\ ~ drawer.isDragging /\ drawer'.isDragging
            /\ drawer.editingMonth # None
            /\ drawer.editingMonth = drawer'.dragStart)
        => drawer'.dragSourceValueRef =
               commitValue(drawer, drawer.editingMonth).values[drawer.editingMonth]
      ]_vars

\* C23: a drag of the fill handle that ends on the month it started on is a
\* no-op: after the mouse-up the buffered values and the dirty flag are what
\* they were before the mouse-down.
FillOnSourceIsNoOp ==
    [][ (mounted /\ mounted' /\ drawer.isDragging /\ ~ drawer'.isDragging
            /\ drawer.dragFrom.on /\ drawer.dragStart = drawer.dragEnd)
        => /\ drawer'.values = drawer.dragFrom.values
           /\ drawer'.hasChangesRef = drawer.dragFrom.hasChanges ]_vars

PasteConfirmWrites ==
    [][ /\ PasteConfirm =>
            LET a == IF drawer.selectedCell = None THEN 1 ELSE drawer.selectedCell
                pasted == drawer.pasteData.values
                n == Len(pasted)
            IN  /\ \A i \in 0..(n - 1) :
                       a + i <= 12 =>
                           /\ a + i \in DOMAIN drawer'.values
                           /\ drawer'.values[a + i] = pasted[i + 1]
                /\ \A m \in (DOMAIN drawer.values \cup DOMAIN drawer'.values)
                               \ (a..(a + n - 1)) :
                       /\ m \in DOMAIN drawer.values /\ m \in DOMAIN drawer'.values
                       /\ drawer'.values[m] = drawer.values[m]
                /\ DOMAIN drawer'.values \subseteq DOMAIN drawer.values \cup Months
                /\ drawer'.valuesRef = drawer'.values
                /\ drawer'.hasChanges /\ drawer'.hasChangesRef
        /\ (mounted /\ editingComponent # None /\ drawer.hasChangesRef
               /\ editingComponent' # editingComponent)
           => flushes' = Append(flushes, [componentId |-> editingComponent,
                                          year |-> selectedYear,
                                          values |-> drawer.valuesRef])
      ]_vars

\* eight values were pasted at month 6 and the drawer was closed: the PUT
\* carries 1..7 in months 6..12, the loaded 100 and 40 in months 1 and 5,
\* and no month 13
PastedRowFlushed ==
    /\ mounted /\ editingComponent = None
    /\ Len(flushes) = 1 /\ flushes[1].componentId = 1
    /\ flushes[1].values = [m \in Months |-> IF m >= 6 THEN Num(m - 5)
                                             ELSE IF m = 1 THEN Num(100)
                                             ELSE IF m = 5 THEN Num(40) ELSE Zero]

\* C29: a PUT of the cashflow anchor or of the actuals cutoff that is not
\* answered with 200 (a field is missing, the month is outside 1..12) leaves
\* the rows of its table as they were: a failed update never removes the
\* stored setting.
FailedSettingsUpdateKeepsRow ==
    [][ /\ (PutCashflowSettings /\ response'.status # 200)
            => cashflow_settings' = cashflow_settings
        /\ (PutCutoffSettings /\ response'.status # 200)
            => actuals_cutoff_settings' = actuals_cutoff_settings ]_vars

---------------------------------------------------------------------------
(* Properties of the budget-vs-actual view *)

\* C30: once every PUT of an actual has been answered, the actual the
\* comparison table is given for each component and month of the year of the
\* view is the amount stored for that year: an actual entered under one year
\* is not displayed for another.
DisplayedActualIsStored ==
    actualPuts = <<>> =>
        \A componentId \in ViewComponents, month \in Months :
            LET shown == displayActualValues(actualValues, pendingActualChanges)
            IN  (IF <<componentId, month>> \in DOMAIN shown
                 THEN shown[<<componentId, month>>] ELSE Zero)
                = getComponentValues(actual_values, componentId, selectedYear)[month]

=============================================================================
